---- MODULE Spec2Model ----
(***************************************************************************)
(* Model of the labgrid boot strategies of adi_lg_plugins (BootFPGASoC,    *)
(* BootFPGASoCSSH, BootSelMap, BootFabric) and of the Kuiper release       *)
(* cache (KuiperDLDriver / Downloader).                                    *)
(*                                                                         *)
(* A strategy's transition(status) is a recursive method whose body is an  *)
(* if/elif chain; each branch first calls transition(predecessor) and then *)
(* issues driver operations in literal order.  Each branch is written here *)
(* as the list of its statements (one entry per source statement that      *)
(* calls a driver, calls transition, tests or sets a field), and one       *)
(* interpreter executes the lists with Python's call/raise/try semantics.  *)
(* Every driver operation except target.deactivate may raise.              *)
(***************************************************************************)
EXTENDS Integers, Sequences, FiniteSets, TLC

VARIABLES
    cls,        \* the strategy class of the instance (fixed at construction)
    cfg,        \* bindings and attributes of the instance (fixed at construction)
    prog,       \* the branches of transition under cfg, by target state
    status,     \* self.status
    copiedPre,  \* BootSelMap._copied_pre_boot_files
    copiedPost, \* BootSelMap._copied_post_boot_files
    sshAddrOk,  \* ssh.networkservice.address equals the IP the device reports
    active,     \* the bound drivers that are currently active
    lastPower,  \* last power command that completed: "none", "off", "on"
    mux,        \* last sdmux.set_mode that completed: "none", "host", "dut"
    mounted,    \* MassStorageDriver.mounted
    stack,      \* the transition() frames in progress, innermost last
    t,          \* the loop variable t of the polling loop in progress
    outcome,    \* of the latest top-level call: "none","running","returned","raised"
    target,     \* argument of the latest top-level call
    start,      \* self.status when the latest top-level call began
    startPre,   \* _copied_pre_boot_files when the latest top-level call began
    oplog,      \* driver operations completed by the latest top-level call
    bodylog,    \* states whose action body was entered by the latest top-level call
    failed,     \* what raised to the caller: [op, kind, st, depth]
    broken,     \* Strategy.broken: a transition() call on the instance has raised
    tolerated,  \* operations whose exception a try/except of this call swallowed
    everOk,     \* some transition() call (nested ones included) returned normally
    hist,       \* over the instance's life: pre-boot uploads, restart power-offs,
                \* boot files copied since the mux last went to the host,
                \* files checked and put since ssh was last activated
    cache,      \* the artifact cache (see the second part of the module)
    ms,         \* a MassStorageDriver on its own (see the third part)
    pw          \* a power driver on its own (see the fourth part)

stratVars == <<cls, cfg, prog, status, copiedPre, copiedPost, sshAddrOk, active,
               lastPower, mux, mounted, stack, t, outcome, target, start, startPre,
               oplog, bodylog, failed, broken, tolerated, everOk, hist, ms, pw>>
vars == <<stratVars, cache>>

\* everything but ms
msFrame == <<cls, cfg, prog, status, copiedPre, copiedPost, sshAddrOk, active,
             lastPower, mux, mounted, stack, t, outcome, target, start, startPre,
             oplog, bodylog, failed, broken, tolerated, everOk, hist, cache, pw>>

\* everything but pw
pwFrame == <<cls, cfg, prog, status, copiedPre, copiedPost, sshAddrOk, active,
             lastPower, mux, mounted, stack, t, outcome, target, start, startPre,
             oplog, bodylog, failed, broken, tolerated, everOk, hist, cache, ms>>

(***************************************************************************)
(* Bounds and program constants                                            *)
(***************************************************************************)
\* entries of a configured pre_boot_boot_files / post_boot_boot_files map
MaxFiles == 1
\* entries of files_to_extract, hence of KuiperDLDriver._boot_files
NBootFiles == 4
\* range(30) of the device-presence loop of wait_for_virtex_boot
DevPollLimit == 30
\* range(120) of the JESD loop of wait_for_virtex_boot
JesdPollLimit == 120
\* range(30) of BootFabric._verify_iio_device
IioPollLimit == 30

\* retries=3 of Downloader.retry_session
Retries == 3

Classes ==
    {"BootFPGASoC", "BootFPGASoCSSH", "BootSelMap", "BootFabric",
     "ExampleBootStrategy"}

(***************************************************************************)
(* The Status enums                                                        *)
(***************************************************************************)
StatusFPGASoC ==
    {"unknown", "powered_off", "sd_mux_to_host", "update_boot_files",
     "sd_mux_to_dut", "booting", "booted", "shell", "soft_off"}

StatusFPGASoCSSH ==
    {"unknown", "powered_off", "booting", "booted", "update_boot_files",
     "reboot", "booting_new", "shell", "soft_off"}

StatusSelMap ==
    {"unknown", "powered_off", "booting_zynq", "booted_zynq",
     "update_zynq_boot_files", "update_virtex_boot_files",
     "trigger_selmap_boot", "wait_for_virtex_boot", "booted_virtex",
     "shell", "soft_off"}

StatusFabric ==
    {"unknown", "powered_off", "powered_on", "flash_fpga", "booted", "shell",
     "soft_off"}

StatusExample == {"unknown", "off", "booting", "ready"}

\* the state names test_fabric_strat.py passes to BootFabric.transition that
\* the Status enum of bootfabric.py does not define
TestedNames == {"bitstream_flashed", "kernel_downloaded"}

Status(c) ==
    CASE c = "BootFPGASoC" -> StatusFPGASoC
      [] c = "ExampleBootStrategy" -> StatusExample
      [] c = "BootFPGASoCSSH" -> StatusFPGASoCSSH
      [] c = "BootSelMap" -> StatusSelMap
      [] c = "BootFabric" -> StatusFabric

\* the strings a caller passes to transition: the members of the enum, and
\* for BootFabric the names its tests use
Names(c) == Status(c) \cup (IF c = "BootFabric" THEN TestedNames ELSE {})

\* the classes whose transition carries labgrid's @never_retry: the wrapper
\* raises at once when self.broken is set, and sets it when the call raises
NeverRetry(c) == c # "ExampleBootStrategy"

(***************************************************************************)
(* Statements.  k is the kind, a the argument, h a statement index.        *)
(*   call   self.transition(Status.a)                                      *)
(*   begin  the prerequisite call has returned: a's own statements start   *)
(*   op     driver operation a; inside a try block h is the first          *)
(*          statement of its except clause, otherwise h = 0                *)
(*   jmp    the try block ended normally: continue after the except clause *)
(*   br     if the field a is set continue at h (the guarded block is      *)
(*          skipped)                                                       *)
(*   flag   self.<a> = True                                                *)
(*   sync   the comparison of ssh.networkservice.address with the          *)
(*          reported ip, a = "ne" (update when different) or "eq"          *)
(*   chk    os.path.isfile(local_path): raises StrategyError when False    *)
(*   poll   polling loop a with at most h iterations                       *)
(*   setst  self.status = Status.a                                         *)
(*   ret    return                                                         *)
(*   raise  raise StrategyError                                            *)
(***************************************************************************)
Call(s) == [k |-> "call", a |-> s, h |-> 0]
Begin == [k |-> "begin", a |-> "", h |-> 0]
Op(o) == [k |-> "op", a |-> o, h |-> 0]
OpTry(o, handler) == [k |-> "op", a |-> o, h |-> handler]
Jmp(n) == [k |-> "jmp", a |-> "", h |-> n]
Br(f, n) == [k |-> "br", a |-> f, h |-> n]
Flag(f) == [k |-> "flag", a |-> f, h |-> 0]
Sync(m) == [k |-> "sync", a |-> m, h |-> 0]
Chk == [k |-> "chk", a |-> "os.path.isfile", h |-> 0]
Poll(p, n) == [k |-> "poll", a |-> p, h |-> n]
SetSt(s) == [k |-> "setst", a |-> s, h |-> 0]
Ret == [k |-> "ret", a |-> "", h |-> 0]
Raise == [k |-> "raise", a |-> "StrategyError", h |-> 0]

\* variant of Repeat that runs the body of the loop for the first entry only
Repeat_Once(body, n) == IF n = 0 THEN <<>> ELSE body

RECURSIVE Repeat(_, _)
Repeat(body, n) == IF n = 0 THEN <<>> ELSE body \o Repeat(body, n - 1)

(***************************************************************************)
(* BootFPGASoC.transition: the statements of each elif branch              *)
(***************************************************************************)
\* variant of WaitForLinux that waits for the marker before "Linux"
WaitForLinux_MarkerFirst ==
    <<Op("shell.activate"), Op("expect.marker"), Op("expect.Linux"),
      Op("shell.deactivate")>>

SoftOffTail ==
    \* try: poweroff; expect "Power down"; deactivate(shell)
    \* except: deactivate(shell)      then activate(power); power.off()
    <<OpTry("shell.poweroff", 7), OpTry("expect.PowerDown", 7),
      OpTry("shell.deactivate", 7), Jmp(8), Op("shell.deactivate"),
      Op("power.activate"), Op("power.off")>>

WaitForLinux ==
    <<Op("shell.activate"), Op("expect.Linux"), Op("expect.marker"),
      Op("shell.deactivate")>>

\* variant of SdMuxToHost that does not go through powered_off first
SdMuxToHost_NoPowerOff ==
    <<Begin, Op("sdmux.activate"), Op("sdmux.host")>>

\* the sd_mux_to_host branch: transition(powered_off), activate(sdmux),
\* set_mode("host")
SdMuxToHost ==
    <<Call("powered_off"), Begin, Op("sdmux.activate"), Op("sdmux.host")>>

\* variant of SdMuxToDut that skips the update of the boot files
SdMuxToDut_NoUpdate ==
    <<Call("sd_mux_to_host"), Begin, Op("sdmux.dut")>>

\* the sd_mux_to_dut branch: transition(update_boot_files), set_mode("dut")
SdMuxToDut ==
    <<Call("update_boot_files"), Begin, Op("sdmux.dut")>>

BootFPGASoC_transition(s) ==
    CASE s = "powered_off" ->
            <<Begin, Op("shell.deactivate"), Op("power.activate"), Op("power.off")>>
      [] s = "sd_mux_to_host" -> SdMuxToHost
      [] s = "update_boot_files" ->
            <<Call("sd_mux_to_host"), Begin>>
            \o (IF cfg.imgw
                  THEN <<Op("iw.activate"), Op("iw.write_image"), Op("iw.deactivate")>>
                  ELSE <<>>)
            \o <<Op("ms.activate"), Op("ms.mount")>>
            \o Repeat(<<Op("ms.copy")>>, NBootFiles)
            \o <<Op("ms.unmount"), Op("ms.deactivate")>>
      [] s = "sd_mux_to_dut" -> SdMuxToDut
      [] s = "booting" ->
            <<Call("sd_mux_to_dut"), Begin, Op("power.activate"), Op("power.on")>>
      [] s = "booted" -> <<Call("booting"), Begin>> \o WaitForLinux
      [] s = "shell" -> <<Call("booted"), Begin, Op("shell.activate")>>
      [] s = "soft_off" -> <<Call("shell"), Begin>> \o SoftOffTail
      [] OTHER -> <<>>

(***************************************************************************)
(* BootFPGASoCSSH.transition                                               *)
(***************************************************************************)
BootFPGASoCSSH_transition(s) ==
    CASE s = "powered_off" ->
            <<Begin, Op("shell.deactivate")>>
            \o (IF cfg.power THEN <<Op("power.activate"), Op("power.off")>> ELSE <<>>)
      [] s = "booting" ->
            <<Call("powered_off"), Begin>>
            \o (IF cfg.power THEN <<Op("power.activate"), Op("power.on")>> ELSE <<>>)
      [] s = "booted" ->
            <<Call("booting"), Begin>>
            \o (IF cfg.power THEN WaitForLinux ELSE <<>>)
      [] s = "update_boot_files" ->
            <<Call("booted"), Begin, Op("shell.activate"), Op("shell.get_ip"),
              Op("shell.deactivate"), Sync("ne"), Op("ssh.activate")>>
            \o (IF cfg.kuiper THEN Repeat(<<Op("ssh.put")>>, NBootFiles) ELSE <<>>)
            \o <<Op("ssh.deactivate")>>
      [] s = "reboot" ->
            <<Call("update_boot_files"), Begin, Op("shell.activate"),
              OpTry("shell.reboot", 5), Op("shell.deactivate")>>
      [] s = "booting_new" -> <<Call("reboot"), Begin>> \o WaitForLinux
      [] s = "shell" -> <<Call("booting_new"), Begin, Op("shell.activate")>>
      [] s = "soft_off" -> <<Call("shell"), Begin>> \o SoftOffTail
      [] OTHER -> <<>>

(***************************************************************************)
(* BootSelMap.transition                                                   *)
(***************************************************************************)
\* Entry k of a boot-file map: its remote path lies in a folder other than
\* /boot (so "mkdir -p" is run) for the odd entries, directly in /boot for
\* the even ones.
NeedsMkdir(k) == k % 2 = 1

RECURSIVE UploadFrom(_, _)
UploadFrom(k, n) ==
    IF k > n THEN <<>>
    ELSE <<Chk, Raise>> \o (IF NeedsMkdir(k) THEN <<Op("ssh.mkdir")>> ELSE <<>>)
         \o <<Op("ssh.put")>> \o UploadFrom(k + 1, n)

Upload(n) == UploadFrom(1, n)

ReadAddress ==
    <<Op("shell.activate"), Op("shell.get_ip"), Op("shell.deactivate"), Sync("eq")>>

\* variant of ZynqUploadBlock that powers off but does not boot again
ZynqUploadBlock_NoReboot ==
    IF cfg.nPre = 0 THEN <<>>
    ELSE <<Op("ssh.activate")>> \o Upload(cfg.nPre)
         \o <<Op("ssh.deactivate"), Flag("copiedPre"),
              Call("powered_off"), SetSt("powered_off"), Ret>>

\* variant of ZynqUploadBlock that does not set _copied_pre_boot_files
ZynqUploadBlock_NoFlag ==
    IF cfg.nPre = 0 THEN <<>>
    ELSE <<Op("ssh.activate")>> \o Upload(cfg.nPre)
         \o <<Op("ssh.deactivate"),
              Call("powered_off"), Call("booting_zynq"), Call("booted_zynq"),
              SetSt("powered_off"), Ret>>

ZynqUploadBlock ==
    IF cfg.nPre = 0 THEN <<>>
    ELSE <<Op("ssh.activate")>> \o Upload(cfg.nPre)
         \o <<Op("ssh.deactivate"), Flag("copiedPre"),
              Call("powered_off"), Call("booting_zynq"), Call("booted_zynq"),
              SetSt("powered_off"), Ret>>

VirtexUploadBlock ==
    IF cfg.nPost = 0 THEN <<>>
    ELSE <<Op("ssh.activate")>> \o Upload(cfg.nPost)
         \o <<Op("ssh.deactivate"), Flag("copiedPost")>>

\* variant of TriggerSelmapBoot that does not wait for the post-boot files
TriggerSelmapBoot_Early ==
    <<Call("update_zynq_boot_files"), Begin, Op("ssh.activate"),
      Op("ssh.selmap"), Op("ssh.deactivate")>>

\* the trigger_selmap_boot branch: transition(update_virtex_boot_files),
\* then the selmap_dtbo.sh command over SSH
TriggerSelmapBoot ==
    <<Call("update_virtex_boot_files"), Begin, Op("ssh.activate"),
      Op("ssh.selmap"), Op("ssh.deactivate")>>

BootSelMap_transition(s) ==
    CASE s = "powered_off" ->
            <<Begin, Op("shell.deactivate"), Op("power.activate"), Op("power.off")>>
      [] s = "booting_zynq" ->
            <<Call("powered_off"), Begin, Op("power.activate"), Op("power.on")>>
      [] s = "booted_zynq" -> <<Call("booting_zynq"), Begin>> \o WaitForLinux
      [] s = "update_zynq_boot_files" ->
            <<Call("booted_zynq"), Begin>> \o ReadAddress
            \o <<Br("copiedPre", 8 + Len(ZynqUploadBlock))>> \o ZynqUploadBlock
      [] s = "update_virtex_boot_files" ->
            <<Call("update_zynq_boot_files"), Begin>> \o ReadAddress
            \o <<Br("copiedPost", 8 + Len(VirtexUploadBlock))>> \o VirtexUploadBlock
      [] s = "trigger_selmap_boot" -> TriggerSelmapBoot
      [] s = "wait_for_virtex_boot" ->
            <<Call("trigger_selmap_boot"), Begin, Op("shell.activate"),
              Poll("dev", DevPollLimit), Poll("jesd", JesdPollLimit),
              Op("shell.restart_iiod"), Op("shell.deactivate")>>
      [] s = "shell" -> <<Call("wait_for_virtex_boot"), Begin, Op("shell.activate")>>
      [] s = "soft_off" -> <<Call("shell"), Begin>> \o SoftOffTail
      [] OTHER -> <<>>

(***************************************************************************)
(* BootFabric.transition                                                   *)
(***************************************************************************)
BootFabric_transition(s) ==
    CASE s = "powered_off" ->
            <<Begin>>
            \o (IF cfg.shell THEN <<Op("shell.deactivate")>> ELSE <<>>)
            \o (IF cfg.power THEN <<Op("power.activate"), Op("power.off")>> ELSE <<>>)
      [] s = "powered_on" ->
            <<Call("powered_off"), Begin>>
            \o (IF cfg.power THEN <<Op("power.activate"), Op("power.on")>> ELSE <<>>)
      [] s = "flash_fpga" ->
            <<Call("powered_on"), Begin, Op("jtag.activate"), Op("jtag.load")>>
      [] s = "booted" ->
            <<Call("flash_fpga"), Begin>>
            \o (IF cfg.shell THEN WaitForLinux ELSE <<>>)
      [] s = "shell" ->
            <<Call("booted"), Begin>>
            \o (IF cfg.shell
                  THEN <<Op("shell.activate")>>
                       \o (IF cfg.verify THEN <<Poll("iio", IioPollLimit)>> ELSE <<>>)
                  ELSE <<Raise>>)
      [] s = "soft_off" ->
            <<Begin>>
            \o (IF cfg.shell
                  THEN <<OpTry("shell.activate", 7), OpTry("shell.poweroff", 7),
                         OpTry("expect.PowerDown", 7), OpTry("shell.deactivate", 7),
                         Jmp(8), Op("shell.deactivate")>>
                  ELSE <<>>)
            \o <<Call("powered_off")>>
      [] OTHER -> <<>>

(***************************************************************************)
(* ExampleBootStrategy.transition: "if self.status != Status.off:          *)
(* self.transition(Status.off)" is the call statement, which returns at    *)
(* once when the state is already reached                                  *)
(***************************************************************************)
ExampleBootStrategy_transition(s) ==
    CASE s = "off" -> <<Begin, Op("power.off")>>
      [] s = "booting" -> <<Call("off"), Begin, Op("power.on")>>
      [] s = "ready" -> <<Call("booting"), Begin>>
      [] OTHER -> <<>>

Branches(s) ==
    CASE cls = "BootFPGASoC" -> BootFPGASoC_transition(s)
      [] cls = "ExampleBootStrategy" -> ExampleBootStrategy_transition(s)
      [] cls = "BootFPGASoCSSH" -> BootFPGASoCSSH_transition(s)
      [] cls = "BootSelMap" -> BootSelMap_transition(s)
      [] cls = "BootFabric" -> BootFabric_transition(s)

\* the statements of the branch for s; <<>> when the chain has no such elif
Body(s) == prog[s]

\* the branch of the if/elif chain that transition(s) takes
\* variant of Dispatch without the early return on status == self.status
Dispatch_NoSkip(s) ==
    IF s = "unknown" THEN "reject"
    ELSE IF Body(s) # <<>> THEN "run"
    ELSE "noedge"

\* variant of Dispatch that tests status == self.status before unknown
Dispatch_SkipFirst(s) ==
    IF s = status THEN "skip"
    ELSE IF s = "unknown" THEN "reject"
    ELSE IF Body(s) # <<>> THEN "run"
    ELSE "noedge"

\* variant of Dispatch whose chain has no final else
Dispatch_NoElse(s) ==
    IF s = "unknown" THEN "reject"
    ELSE IF s = status THEN "skip"
    ELSE IF Body(s) # <<>> THEN "run"
    ELSE "skip"

Dispatch(s) ==
    IF s = "unknown" THEN "reject"
    ELSE IF s = status THEN "skip"
    ELSE IF Body(s) # <<>> THEN "run"
    ELSE "noedge"

\* the state a branch requires first: the argument of its leading
\* self.transition(...) call, "none" when it has none
Pred(s) ==
    IF Body(s) # <<>> /\ Body(s)[1].k = "call" THEN Body(s)[1].a ELSE "none"

(***************************************************************************)
(* Drivers                                                                 *)
(***************************************************************************)
\* the binding an operation goes through: "power.off" -> "power"
HandleOf(o) ==
    CASE o \in {"power.activate", "power.off", "power.on"} -> "power"
      [] o \in {"shell.activate", "shell.deactivate", "shell.poweroff",
                "shell.get_ip", "shell.reboot", "shell.restart_iiod",
                "shell.iio_attr", "expect.Linux", "expect.marker",
                "expect.PowerDown"} -> "shell"
      [] o \in {"sdmux.activate", "sdmux.host", "sdmux.dut"} -> "sdmux"
      [] o \in {"ms.activate", "ms.mount", "ms.copy", "ms.unmount",
                "ms.deactivate"} -> "mass_storage"
      [] o \in {"iw.activate", "iw.write_image", "iw.deactivate"} -> "image_writer"
      [] o \in {"ssh.activate", "ssh.deactivate", "ssh.put", "ssh.mkdir",
                "ssh.selmap"} -> "ssh"
      [] o \in {"jtag.activate", "jtag.load"} -> "jtag"

\* optional bindings may be None; the others are always bound
Bound(hd) ==
    CASE hd = "power" -> cfg.power
      [] hd = "shell" -> cfg.shell
      [] OTHER -> TRUE

Activations ==
    {"power.activate", "shell.activate", "sdmux.activate", "ms.activate",
     "iw.activate", "ssh.activate", "jtag.activate"}
Deactivations ==
    {"shell.deactivate", "ms.deactivate", "iw.deactivate", "ssh.deactivate"}

\* the methods of XilinxJTAGDriver: connect_jtag, flash_bitstream,
\* download_kernel, start_execution, disconnect_jtag -- the
\* load_bitstream_and_kernel_and_start that flash_fpga calls is none of them
Provides(o) == o # "jtag.load"

\* target.deactivate does not raise; every other driver operation may
MayRaise(o) == o \notin Deactivations

ActiveAfter(o) ==
    IF o \in Activations THEN active \cup {HandleOf(o)}
    ELSE IF o \in Deactivations THEN active \ {HandleOf(o)}
    ELSE active

PowerAfter(o) ==
    IF o = "power.off" THEN "off" ELSE IF o = "power.on" THEN "on" ELSE lastPower

MuxAfter(o) ==
    IF o = "sdmux.host" THEN "host" ELSE IF o = "sdmux.dut" THEN "dut" ELSE mux

MountedAfter(o) ==
    IF o = "ms.mount" THEN TRUE ELSE IF o = "ms.unmount" THEN FALSE ELSE mounted

DriverState ==
    [active |-> active, lastPower |-> lastPower, mux |-> mux,
     mounted |-> mounted, copiedPre |-> copiedPre, copiedPost |-> copiedPost,
     sshAddrOk |-> sshAddrOk]

(***************************************************************************)
(* The interpreter                                                         *)
(***************************************************************************)
Running == outcome = "running"
Depth == Len(stack)
Top == stack[Depth]
AtEnd == Top.pc > Len(Body(Top.st))
Ins == Body(Top.st)[Top.pc]
At(kind) == Running /\ ~AtEnd /\ Ins.k = kind

NoFailure == [op |-> "", kind |-> "none", st |-> "", depth |-> 0]

Goto(n) == stack' = [stack EXCEPT ![Depth].pc = n]
Advance == Goto(Top.pc + 1)

\* the innermost call returns: its caller continues after the call statement
Return ==
    IF Depth = 1
      THEN stack' = <<>> /\ outcome' = "returned"
      ELSE /\ stack' = [SubSeq(stack, 1, Depth - 1) EXCEPT ![Depth - 1].pc = @ + 1]
           /\ outcome' = outcome

\* an exception skips the final "self.status = status" of every frame it
\* leaves: self.status keeps the value it has
\* variant of StatusOnRaise that records the state before its body is done
StatusOnRaise_Early(s) == s

StatusOnRaise(s) == status

\* an exception leaves every frame: no call of transition sits in a try block
\* variant of RaiseOut that runs the requested state's branch again
RaiseOut_Retry(o, kind) ==
    /\ stack' = <<[st |-> target, pc |-> 1]>>
    /\ status' = status
    /\ outcome' = "running"
    /\ t' = 0
    /\ failed' = [op |-> o, kind |-> kind, st |-> Top.st, depth |-> Depth]
    /\ broken' = broken

RaiseOut(o, kind) ==
    /\ stack' = <<>>
    /\ status' = StatusOnRaise(Top.st)
    /\ outcome' = "raised"
    /\ t' = 0
    /\ failed' = [op |-> o, kind |-> kind, st |-> Top.st, depth |-> Depth]
    /\ broken' = (broken \/ NeverRetry(cls))

drvVars == <<active, lastPower, mux, mounted>>
fldVars == <<copiedPre, copiedPost, sshAddrOk>>
callVars == <<target, start, startPre>>
fixVars == <<cls, cfg, prog, cache, ms, pw>>

\* what a call from outside meets first: the never_retry wrapper ("broken"),
\* then Status[status] (KeyError on a name outside the enum, "nokey"), then
\* the if/elif chain
\* variant of Entry without the never_retry wrapper
Entry_Retry(s) ==
    IF s \notin Status(cls) THEN "nokey" ELSE Dispatch(s)

Entry(s) ==
    IF NeverRetry(cls) /\ broken THEN "broken"
    ELSE IF s \notin Status(cls) THEN "nokey"
    ELSE Dispatch(s)

\* a top-level call strategy.transition(s)
Transition(s) ==
    /\ ~Running
    /\ target' = s
    /\ start' = status
    /\ startPre' = copiedPre
    /\ oplog' = <<>>
    /\ bodylog' = <<>>
    /\ tolerated' = <<>>
    /\ t' = 0
    /\ CASE Entry(s) = "skip" ->
              /\ outcome' = "returned" /\ stack' = <<>>
              /\ failed' = NoFailure /\ broken' = broken /\ everOk' = TRUE
         [] Entry(s) = "run" ->
              /\ outcome' = "running" /\ stack' = <<[st |-> s, pc |-> 1]>>
              /\ failed' = NoFailure /\ broken' = broken /\ everOk' = everOk
         [] OTHER ->
              /\ outcome' = "raised" /\ stack' = <<>>
              /\ failed' = [op |-> "transition", kind |-> Entry(s),
                            st |-> s, depth |-> 0]
              /\ broken' = (broken \/ NeverRetry(cls))
              /\ everOk' = everOk
    /\ UNCHANGED <<status, drvVars, fldVars, fixVars, hist>>

\* self.transition(Status.a) inside a branch
StepCall ==
    /\ At("call")
    /\ CASE Dispatch(Ins.a) = "skip" ->
              /\ Advance /\ everOk' = TRUE
              /\ UNCHANGED <<status, outcome, failed, broken, t>>
         [] Dispatch(Ins.a) = "run" ->
              /\ stack' = Append(stack, [st |-> Ins.a, pc |-> 1])
              /\ UNCHANGED <<status, outcome, failed, broken, t, everOk>>
         [] OTHER ->
              /\ RaiseOut("transition", Dispatch(Ins.a))
              /\ everOk' = everOk
    /\ UNCHANGED <<drvVars, fldVars, fixVars, hist, callVars, oplog, bodylog,
                   tolerated>>

StepBegin ==
    /\ At("begin")
    /\ bodylog' = Append(bodylog, Top.st)
    /\ Advance
    /\ UNCHANGED <<status, drvVars, fldVars, fixVars, hist, callVars, oplog, outcome,
                   failed, broken, tolerated, everOk, t>>

\* the frame of update_zynq_boot_files is past its prerequisite call and a
\* nested call runs: the restart "to apply new boot files"
InRestart ==
    \E i \in 1..(Depth - 1) :
        stack[i].st = "update_zynq_boot_files" /\ stack[i].pc > 1

\* ssh.put in update_zynq_boot_files uploads a pre-boot file; power.off in
\* the restart is the power cycle the upload triggers; copy_file puts one
\* more boot file on the storage that set_mode("host") handed to the host;
\* since target.activate(ssh), so many local files passed os.path.isfile
\* and so many were put
HistAfter(o) ==
    [puts |-> hist.puts
              + (IF o = "ssh.put" /\ Top.st = "update_zynq_boot_files" THEN 1 ELSE 0),
     cycles |-> hist.cycles
              + (IF o = "power.off" /\ InRestart THEN 1 ELSE 0),
     copied |-> IF o = "sdmux.host" THEN 0
                ELSE IF o = "ms.copy" THEN hist.copied + 1
                ELSE hist.copied,
     checked |-> IF o = "ssh.activate" THEN 0 ELSE hist.checked,
     sent |-> IF o = "ssh.activate" THEN 0
              ELSE IF o = "ssh.put" THEN hist.sent + 1
              ELSE hist.sent]

\* a driver operation completes
StepOp ==
    /\ At("op")
    /\ Bound(HandleOf(Ins.a))
    /\ Provides(Ins.a)
    /\ oplog' = Append(oplog, Ins.a)
    /\ active' = ActiveAfter(Ins.a)
    /\ lastPower' = PowerAfter(Ins.a)
    /\ mux' = MuxAfter(Ins.a)
    /\ mounted' = MountedAfter(Ins.a)
    /\ Advance
    /\ hist' = HistAfter(Ins.a)
    /\ UNCHANGED <<status, fldVars, fixVars, callVars, bodylog, outcome, failed,
                   broken, tolerated, everOk, t>>

\* a driver operation raises (always, when its binding is None); inside a
\* try block the except clause runs, otherwise the exception leaves the call
StepOpRaises ==
    /\ At("op")
    /\ ~Bound(HandleOf(Ins.a)) \/ ~Provides(Ins.a) \/ MayRaise(Ins.a)
    /\ IF Ins.h # 0
         THEN /\ Goto(Ins.h)
              /\ tolerated' = Append(tolerated, Ins.a)
              /\ UNCHANGED <<status, outcome, failed, broken, t>>
         ELSE /\ RaiseOut(Ins.a, IF ~Bound(HandleOf(Ins.a)) THEN "unbound"
                                  ELSE IF ~Provides(Ins.a) THEN "missing"
                                  ELSE "env")
              /\ tolerated' = tolerated
    /\ UNCHANGED <<drvVars, fldVars, fixVars, hist, callVars, oplog, bodylog,
                   everOk>>

StepJmp ==
    /\ At("jmp")
    /\ Goto(Ins.h)
    /\ UNCHANGED <<status, drvVars, fldVars, fixVars, hist, callVars, oplog, bodylog,
                   outcome, failed, broken, tolerated, everOk, t>>

Field(f) == IF f = "copiedPre" THEN copiedPre ELSE copiedPost

\* "if not self._copied_..._boot_files:" -- the block is skipped when set
StepBr ==
    /\ At("br")
    /\ IF Field(Ins.a) THEN Goto(Ins.h) ELSE Advance
    /\ UNCHANGED <<status, drvVars, fldVars, fixVars, hist, callVars, oplog, bodylog,
                   outcome, failed, broken, tolerated, everOk, t>>

StepFlag ==
    /\ At("flag")
    /\ copiedPre' = (copiedPre \/ Ins.a = "copiedPre")
    /\ copiedPost' = (copiedPost \/ Ins.a = "copiedPost")
    /\ Advance
    /\ UNCHANGED <<status, drvVars, sshAddrOk, fixVars, hist, callVars, oplog, bodylog,
                   outcome, failed, broken, tolerated, everOk, t>>

\* "ne": if address != ip: address = ip     (BootFPGASoCSSH)
\* "eq": if address == ip: address = ip     (BootSelMap)
AddressAfterSync(mode) == IF mode = "ne" THEN TRUE ELSE sshAddrOk

StepSync ==
    /\ At("sync")
    /\ sshAddrOk' = AddressAfterSync(Ins.a)
    /\ Advance
    /\ UNCHANGED <<status, drvVars, copiedPre, copiedPost, fixVars, hist, callVars,
                   oplog, bodylog, outcome, failed, broken, tolerated, everOk, t>>

\* os.path.isfile(local_path) is True: the raise under the if is skipped
StepChk ==
    /\ At("chk")
    /\ Goto(Top.pc + 2)
    /\ hist' = [hist EXCEPT !.checked = @ + 1]
    /\ UNCHANGED <<status, drvVars, fldVars, fixVars, callVars, oplog, bodylog,
                   outcome, failed, broken, tolerated, everOk, t>>

\* os.path.isfile(local_path) is False: on to the raise under the if
StepChkFails ==
    /\ At("chk")
    /\ Advance
    /\ UNCHANGED <<status, drvVars, fldVars, fixVars, hist, callVars, oplog, bodylog,
                   outcome, failed, broken, tolerated, everOk, t>>

\* variant of InRange that goes round once more
InRange_OneMore(i, n) == i <= n

\* "for t in range(n)": the loop body runs for t = 0 .. n-1
InRange(i, n) == i < n

\* one iteration of a polling loop finds what it polls for: break
PollHit ==
    /\ At("poll")
    /\ InRange(t, Ins.h)
    /\ t' = 0
    /\ oplog' = Append(oplog, "shell.iio_attr")
    /\ Advance
    /\ UNCHANGED <<status, drvVars, fldVars, fixVars, hist, callVars, bodylog, outcome,
                   failed, broken, tolerated, everOk>>

\* one iteration does not find it: sleep and go round
PollMiss ==
    /\ At("poll")
    /\ InRange(t, Ins.h)
    /\ t' = t + 1
    /\ UNCHANGED <<status, drvVars, fldVars, fixVars, hist, callVars, oplog, bodylog,
                   stack, outcome, failed, broken, tolerated, everOk>>

\* the shell.run of an iteration raises
PollRaises ==
    /\ At("poll")
    /\ InRange(t, Ins.h)
    /\ RaiseOut("shell.iio_attr", "env")
    /\ UNCHANGED <<drvVars, fldVars, fixVars, hist, callVars, oplog, bodylog,
                   tolerated, everOk>>

\* the range is exhausted: raise StrategyError
PollExhausted ==
    /\ At("poll")
    /\ ~InRange(t, Ins.h)
    /\ RaiseOut("poll." \o Ins.a, "strategy")
    /\ UNCHANGED <<drvVars, fldVars, fixVars, hist, callVars, oplog, bodylog,
                   tolerated, everOk>>

StepSetSt ==
    /\ At("setst")
    /\ status' = Ins.a
    /\ Advance
    /\ UNCHANGED <<drvVars, fldVars, fixVars, hist, callVars, oplog, bodylog, outcome,
                   failed, broken, tolerated, everOk, t>>

\* "return" inside a branch: the final "self.status = status" is not reached
StepRet ==
    /\ At("ret")
    /\ Return
    /\ everOk' = TRUE
    /\ UNCHANGED <<status, drvVars, fldVars, fixVars, hist, callVars, oplog, bodylog,
                   failed, broken, tolerated, t>>

StepRaise ==
    /\ At("raise")
    /\ RaiseOut(Ins.a, "strategy")
    /\ UNCHANGED <<drvVars, fldVars, fixVars, hist, callVars, oplog, bodylog,
                   tolerated, everOk>>

\* the value the last line of transition assigns to self.status
FinalStatus(s) == s

\* the branch is done: "self.status = status", and the call returns
Finish ==
    /\ Running /\ AtEnd
    /\ status' = FinalStatus(Top.st)
    /\ Return
    /\ everOk' = TRUE
    /\ UNCHANGED <<drvVars, fldVars, fixVars, hist, callVars, oplog, bodylog, failed,
                   broken,
                   tolerated, t>>

(***************************************************************************)
(* The artifact cache: KuiperDLDriver.download_release over Downloader     *)
(*                                                                         *)
(* cache is one record:                                                    *)
(*   index    "absent", "corrupt" (not parseable) or "valid"               *)
(*   entries  per release, the call that wrote its entry (0: no entry)     *)
(*   image    per release, the content at its image_path (0: no file)      *)
(*   archive  per release, the downloaded archive in the working directory *)
(*   unpacked per release, the extracted image in the working directory    *)
(*   residue  the zip's extraction directory holds other files             *)
(*   pc, v, gbf   position and arguments of the running call               *)
(*   n        calls started;  dl  network downloads completed, per release *)
(*   cur, pre, calls, deleted   history for stating properties             *)
(*   probe    the last check_cached call made on its own and its result    *)
(*   boot_files, copy_files, open, gb   get_boot_files_from_release        *)
(***************************************************************************)
MaxCalls == 3

\* releases known to Downloader.releases, by archive format
XzReleases == {"2019_R1"}
ZipReleases == {"2023_R2_P1"}
Known == XzReleases \cup ZipReleases
Versions == Known \cup {"2017_R1"}

\* file contents are numbers; 0 stands for "no such file"
ArchiveOf(v) == IF v \in XzReleases THEN 11 ELSE 21
Corrupted(b) == b + 1
Served(v) == {ArchiveOf(v), Corrupted(ArchiveOf(v))}

\* hashlib.md5 of a content, and the decompressed content of an archive
Md5(b) == (b * 37 + 5) % 251
Decompress(b) == b * 2 + 1

\* the reference digests of Downloader.releases
releases(v) ==
    [archivemd5 |-> Md5(ArchiveOf(v)),
     imgmd5 |-> Md5(Decompress(ArchiveOf(v)))]

\* variant of check that accepts every file
check_Unchecked(b, ref) == TRUE

\* Downloader.check: the digest of the file equals the reference
check(b, ref) == Md5(b) = ref

\* variant of check_cached that trusts the index without looking at the file
check_cached_IndexOnly(c, v) ==
    /\ c.index = "valid"
    /\ v \in Known
    /\ c.entries[v] # 0

\* KuiperDLDriver.check_cached: the index file exists, lists v, and the
\* image_path of the entry exists
check_cached(c, v) ==
    /\ c.index = "valid"
    /\ v \in Known
    /\ c.entries[v] # 0
    /\ c.image[v] # 0

NoCall == [n |-> 0, v |-> "", gbf |-> FALSE, hit |-> FALSE, dl |-> 0,
           deleted |-> FALSE, blob |-> 0, unpacked |-> 0, result |-> "none"]

NoProbe == [v |-> "", result |-> "none"]

\* a call of get_boot_files_from_release: the release, whether it was cached
\* on entry, _boot_files on entry, how the call ended, how many files it
\* had extracted by then, and what it returned
NoBootCall == [v |-> "", cached |-> FALSE, before |-> <<>>, result |-> "none",
               extracted |-> 0, ret |-> [none |-> TRUE, files |-> <<>>]]

EmptyCache ==
    [index |-> "absent",
     entries |-> [v \in Known |-> 0],
     image |-> [v \in Known |-> 0],
     archive |-> [v \in Known |-> 0],
     unpacked |-> [v \in Known |-> 0],
     residue |-> FALSE,
     pc |-> "idle", v |-> "", gbf |-> FALSE, n |-> 0,
     attempt |-> 0, resp |-> "none",
     dl |-> [v \in Known |-> 0],
     cur |-> NoCall,
     pre |-> [index |-> "absent", entries |-> [v \in Known |-> 0]],
     calls |-> <<>>,
     deleted |-> [v \in Known |-> FALSE],
     probe |-> NoProbe,
     boot_files |-> <<>>,
     copy_files |-> <<>>,
     open |-> FALSE,
     gb |-> NoBootCall]

CacheIdle == cache.pc = "idle"

\* the call ends: back to idle, its record appended to the history
EndCall(c, result) ==
    [c EXCEPT !.pc = "idle",
              !.calls = Append(c.calls, [c.cur EXCEPT !.result = result])]

\* the call raises before reaching the lines that write the index
Raises(result) ==
    /\ cache' = EndCall(cache, result)
    /\ UNCHANGED stratVars

\* kuiperdldriver.py 219-243: entry of download_release
Entered(v, gbf) ==
    [cache EXCEPT !.v = v, !.gbf = gbf, !.n = cache.n + 1,
                  !.attempt = 0, !.resp = "none",
                  !.cur = [NoCall EXCEPT !.n = cache.n + 1, !.v = v, !.gbf = gbf,
                             !.hit = check_cached(cache, v),
                             !.deleted = v \in Known /\ cache.deleted[v]],
                  !.pre = [index |-> cache.index, entries |-> cache.entries],
                  !.deleted = [w \in Known |-> FALSE],
                  !.probe = NoProbe]

download_release(v, gbf) ==
    /\ CacheIdle
    /\ cache.n < MaxCalls
    /\ cache' =
         IF cache.index = "corrupt"
           THEN EndCall(Entered(v, gbf), "index")            \* json.load raises
         ELSE IF check_cached(cache, v)
           THEN EndCall(Entered(v, gbf), "ok")               \* already cached
         ELSE IF gbf
           THEN EndCall(Entered(v, gbf), "notimplemented")   \* line 240
         ELSE IF v \notin Known
           THEN EndCall(Entered(v, gbf), "unknown")          \* line 45
         ELSE [Entered(v, gbf) EXCEPT !.pc = "download"]
    /\ UNCHANGED stratVars

\* what a GET of the session ends in: an HTTP status (OK, one outside and
\* one inside status_forcelist), or "error" for a connection or read error
Responses == {"200", "404", "504", "error"}

\* retry_session: Retry(total=retries, read=retries, connect=retries,
\* status_forcelist=...) mounted on the session
status_forcelist == {"429", "500", "502", "504"}

\* resp.ok
Ok(r) == r = "200"

\* the adapter sends the request again after r
\* variant of Retried that sends the request again after any failure
Retried_All(r) == ~Ok(r)

Retried(r) == r = "error" \/ r \in status_forcelist

\* line 75: the adapter retries the GET
DownloadRetry ==
    /\ cache.pc = "download"
    /\ cache.attempt < Retries
    /\ \E r \in Responses :
          /\ Retried(r)
          /\ cache' = [cache EXCEPT !.attempt = @ + 1, !.resp = r]
    /\ UNCHANGED stratVars

\* line 260, Downloader.download: the response body is written to the
\* archive's name in the working directory
Download ==
    /\ cache.pc = "download"
    /\ \E b \in Served(cache.v) :
          cache' = [cache EXCEPT !.pc = "check_archive",
                                 !.attempt = 0, !.resp = "none",
                                 !.archive[cache.v] = b,
                                 !.dl[cache.v] = @ + 1,
                                 !.cur.dl = @ + 1,
                                 !.cur.blob = b]
    /\ UNCHANGED stratVars

\* line 75: the retries are used up, the session raises; line 76-77: the
\* response is not ok
DownloadFails ==
    /\ cache.pc = "download"
    /\ \E r \in Responses :
          /\ ~Ok(r)
          /\ Retried(r) => cache.attempt = Retries
          /\ cache' = EndCall([cache EXCEPT !.resp = r], "network")
    /\ UNCHANGED stratVars

\* line 261
CheckArchive ==
    /\ cache.pc = "check_archive"
    /\ check(cache.archive[cache.v], releases(cache.v).archivemd5)
    /\ cache' = [cache EXCEPT !.pc = "extract"]
    /\ UNCHANGED stratVars

CheckArchiveFails ==
    /\ cache.pc = "check_archive"
    /\ ~check(cache.archive[cache.v], releases(cache.v).archivemd5)
    /\ Raises("md5")

\* line 262, Downloader.extract: the decompressed content, or a damaged
\* one when the write goes wrong; a zip may unpack other files too
Extract ==
    /\ cache.pc = "extract"
    /\ \E damaged \in BOOLEAN, others \in BOOLEAN :
          /\ others => cache.v \in ZipReleases
          /\ LET img == Decompress(cache.archive[cache.v])
                 out == IF damaged THEN Corrupted(img) ELSE img
             IN cache' = [cache EXCEPT !.pc = "check_image",
                                       !.unpacked[cache.v] = out,
                                       !.cur.unpacked = out,
                                       !.residue = @ \/ others]
    /\ UNCHANGED stratVars

ExtractFails ==
    /\ cache.pc = "extract"
    /\ Raises("extract")

\* line 263
CheckImage ==
    /\ cache.pc = "check_image"
    /\ check(cache.unpacked[cache.v], releases(cache.v).imgmd5)
    /\ cache' = [cache EXCEPT !.pc = "move"]
    /\ UNCHANGED stratVars

CheckImageFails ==
    /\ cache.pc = "check_image"
    /\ ~check(cache.unpacked[cache.v], releases(cache.v).imgmd5)
    /\ Raises("md5")

\* line 269: shutil.move of the image into the cache directory
Move ==
    /\ cache.pc = "move"
    /\ cache' = [cache EXCEPT !.pc = "cleanup",
                              !.image[cache.v] = cache.unpacked[cache.v],
                              !.unpacked[cache.v] = 0]
    /\ UNCHANGED stratVars

MoveFails ==
    /\ cache.pc = "move"
    /\ Raises("move")

\* lines 273-279: remove the archive; rmdir the zip's extraction directory
Cleanup ==
    /\ cache.pc = "cleanup"
    /\ ~(cache.v \in ZipReleases /\ cache.residue)
    /\ cache' = [cache EXCEPT !.pc = "index", !.archive[cache.v] = 0]
    /\ UNCHANGED stratVars

\* os.rmdir raises on a directory that is not empty
CleanupFails ==
    /\ cache.pc = "cleanup"
    /\ cache.v \in ZipReleases /\ cache.residue
    /\ cache' = EndCall([cache EXCEPT !.archive[cache.v] = 0], "cleanup")
    /\ UNCHANGED stratVars

\* variant of IndexAfterWrite that starts from an empty dictionary
IndexAfterWrite_Fresh(c) ==
    [w \in Known |-> IF w = c.v THEN c.n ELSE 0]

\* lines 283-293: cache_data is the index as read (empty when there is no
\* file), with the entry of the release replaced
IndexAfterWrite(c) ==
    [(IF c.index = "valid" THEN c.entries ELSE [w \in Known |-> 0])
        EXCEPT ![c.v] = c.n]

\* lines 282-296: read the index, set the entry of v, write it back
WriteIndex ==
    /\ cache.pc = "index"
    /\ cache' = EndCall([cache EXCEPT !.index = "valid",
                                      !.entries = IndexAfterWrite(cache)], "ok")
    /\ UNCHANGED stratVars

\* lines 295-296 fail: either open(..., 'w') itself fails and the file is
\* as it was, or the write stops after open has truncated the file, which
\* then holds no entry and does not parse
WriteIndexFails ==
    /\ cache.pc = "index"
    /\ \E truncated \in BOOLEAN :
          cache' = EndCall(IF truncated
                             THEN [cache EXCEPT !.index = "corrupt",
                                                !.entries = [w \in Known |-> 0]]
                             ELSE cache, "write")
    /\ UNCHANGED stratVars

\* somebody removes a cached image between two calls
DeleteImage(v) ==
    /\ CacheIdle
    /\ cache.image[v] # 0
    /\ cache' = [cache EXCEPT !.image[v] = 0, !.deleted[v] = TRUE,
                              !.probe = NoProbe]
    /\ UNCHANGED stratVars

\* KuiperDLDriver.check_cached called on its own: json.load raises on an
\* index file that does not parse; nothing is written
check_cached_call(v) ==
    /\ CacheIdle
    /\ cache' = [cache EXCEPT !.probe =
                   [v |-> v,
                    result |-> IF cache.index = "corrupt" THEN "raised"
                               ELSE IF check_cached(cache, v) THEN "true"
                               ELSE "false"]]
    /\ UNCHANGED stratVars

(***************************************************************************)
(* KuiperDLDriver.get_boot_files_from_release.  The files of the manifest  *)
(* are numbered 1..NBootFiles; copy_files is the local list, boot_files    *)
(* the driver's _boot_files, open whether the image file is open.          *)
(***************************************************************************)
Manifest == [k \in 1..NBootFiles |-> k]

\* the call ends, raising unless result = "ok"
EndBootCall(c, result) ==
    [c EXCEPT !.pc = "idle", !.gb.result = result, !.gb.extracted = Len(c.copy_files),
              !.copy_files = <<>>]

\* lines 309-310: a release that is not cached is handed to
\* download_release(get_boot_files=True), which raises at line 240
get_boot_files_from_release(v) ==
    /\ CacheIdle
    /\ cache.n < MaxCalls
    /\ LET gb == [NoBootCall EXCEPT !.v = v,
                                    !.cached = check_cached(cache, v),
                                    !.before = cache.boot_files]
           c == [cache EXCEPT !.gb = gb, !.copy_files = <<>>, !.open = FALSE,
                              !.probe = NoProbe]
       IN cache' =
            IF cache.index = "corrupt"
              THEN EndBootCall([c EXCEPT !.n = @ + 1], "index")
            ELSE IF ~check_cached(cache, v)
              THEN EndBootCall(EndCall([Entered(v, TRUE) EXCEPT !.gb = gb],
                                       "notimplemented"), "notimplemented")
            ELSE [c EXCEPT !.n = @ + 1, !.pc = "gb_open"]
    /\ UNCHANGED stratVars

\* lines 312-316: read the index entry, open the image
OpenImage ==
    /\ cache.pc = "gb_open"
    /\ cache' = [cache EXCEPT !.pc = "gb_fat", !.open = TRUE]
    /\ UNCHANGED stratVars

OpenImageFails ==
    /\ cache.pc = "gb_open"
    /\ cache' = EndBootCall(cache, "open")
    /\ UNCHANGED stratVars

\* lines 322-332: the FAT partition is found and opened
FindFat ==
    /\ cache.pc = "gb_fat"
    /\ cache' = [cache EXCEPT !.pc = "gb_extract"]
    /\ UNCHANGED stratVars

\* lines 328-329: raise, the image is left open
NoFat ==
    /\ cache.pc = "gb_fat"
    /\ cache' = EndBootCall(cache, "nofat")
    /\ UNCHANGED stratVars

\* variant of Extracted that appends to the driver's list directly
Extracted_InPlace(c, k) ==
    [c EXCEPT !.copy_files = Append(@, k),
              !.boot_files = Append(c.copy_files, k)]

\* line 354: copy_files.append(...)
Extracted(c, k) == [c EXCEPT !.copy_files = Append(@, k)]

\* lines 350-354: the next file of the manifest is extracted
ExtractFile ==
    /\ cache.pc = "gb_extract"
    /\ Len(cache.copy_files) < NBootFiles
    /\ cache' = Extracted(cache, Manifest[Len(cache.copy_files) + 1])
    /\ UNCHANGED stratVars

\* lines 351-353: extract_file reports failure: close the image and raise
ExtractFileFails ==
    /\ cache.pc = "gb_extract"
    /\ Len(cache.copy_files) < NBootFiles
    /\ cache' = EndBootCall([cache EXCEPT !.open = FALSE], "extract")
    /\ UNCHANGED stratVars

\* lines 356-359: _boot_files = copy_files, close; the function has no
\* return statement, so the caller gets None
BootFilesDone ==
    /\ cache.pc = "gb_extract"
    /\ Len(cache.copy_files) = NBootFiles
    /\ cache' = EndBootCall([cache EXCEPT !.boot_files = cache.copy_files,
                                          !.open = FALSE,
                                          !.gb.ret = [none |-> TRUE, files |-> <<>>]],
                            "ok")
    /\ UNCHANGED stratVars

(***************************************************************************)
(* MassStorageDriver.  ms is one record:                                   *)
(*   mounted  self.mounted                                                 *)
(*   point    /media/lg_mass_storage: "absent", "dir" (exists, nothing     *)
(*            mounted on it) or "mount" (a mount point)                    *)
(*   device   the device path exists                                       *)
(*   call, before, cmds, cmdok, seen, result   the latest call: its name,  *)
(*            self.mounted on entry, the commands it ran, whether the last *)
(*            command succeeded, the mount point when it ended, and        *)
(*            "ok" or "raised"                                             *)
(***************************************************************************)
Points == {"absent", "dir", "mount"}

MsInit ==
    [mounted |-> FALSE, point |-> "absent", device |-> TRUE, call |-> "none",
     before |-> FALSE, cmds |-> <<>>, cmdok |-> TRUE, seen |-> "absent",
     result |-> "none"]

\* the call ends
MsEnd(m, name, cmds, cmdok, result) ==
    [m EXCEPT !.call = name, !.before = ms.mounted, !.cmds = cmds,
              !.cmdok = cmdok, !.seen = m.point, !.result = result]

\* variant of MountSkips that never skips
MountSkips_Never(m) == FALSE

\* line 50: if self.mounted
MountSkips(m) == m.mounted

\* variant of UnmountSkips that never skips
UnmountSkips_Never(m) == FALSE

\* line 79: if not self.mounted
UnmountSkips(m) == ~m.mounted

\* variant of StillThere that does not look
StillThere_Unverified(p) == FALSE

\* lines 82 and 95: os.path.exists of the mount point
StillThere(p) == p # "absent"

\* massstoragedriver.py 48-75; pmount fails and changes nothing, or
\* succeeds and leaves the mount point in any state
mount_partition ==
    /\ \E ok \in BOOLEAN, after \in Points :
          ms' =
            IF MountSkips(ms)
              THEN MsEnd(ms, "mount", <<>>, TRUE, "ok")
            ELSE IF ms.point = "mount"
              THEN MsEnd([ms EXCEPT !.mounted = TRUE], "mount", <<>>, TRUE, "ok")
            ELSE IF ~ms.device
              THEN MsEnd(ms, "mount", <<>>, TRUE, "raised")
            ELSE IF ~ok
              THEN MsEnd(ms, "mount", <<"pmount">>, FALSE, "raised")
            ELSE IF ~StillThere(after)
              THEN MsEnd([ms EXCEPT !.point = after], "mount", <<"pmount">>,
                         TRUE, "raised")
            ELSE MsEnd([ms EXCEPT !.point = after, !.mounted = TRUE], "mount",
                       <<"pmount">>, TRUE, "ok")
    /\ UNCHANGED msFrame

\* massstoragedriver.py 77-98; pumount fails and changes nothing, or
\* succeeds and leaves the directory in place or removed
unmount_partition ==
    /\ \E ok \in BOOLEAN, after \in {"absent", "dir"} :
          ms' =
            IF UnmountSkips(ms)
              THEN MsEnd(ms, "unmount", <<>>, TRUE, "ok")
            ELSE IF ~StillThere(ms.point)
              THEN MsEnd([ms EXCEPT !.mounted = FALSE], "unmount", <<>>, TRUE, "ok")
            ELSE IF ~ok
              THEN MsEnd(ms, "unmount", <<"sync", "pumount">>, FALSE, "raised")
            ELSE IF StillThere(after)
              THEN MsEnd([ms EXCEPT !.point = after], "unmount",
                         <<"sync", "pumount">>, TRUE, "raised")
            ELSE MsEnd([ms EXCEPT !.point = after, !.mounted = FALSE], "unmount",
                       <<"sync", "pumount">>, TRUE, "ok")
    /\ UNCHANGED msFrame

\* entries of MassStorageDevice.file_updates
MaxUpdates == 2

\* variant of CopyRefused that lets every call through
CopyRefused_Never(m) == FALSE

\* lines 107 and 124: if not self.mounted: raise RuntimeError
CopyRefused(m) == ~m.mounted

\* massstoragedriver.py 100-120: copy_file raises when not mounted or when
\* the source is missing, else copies below the mount point (shutil.copy
\* may fail)
copy_file ==
    /\ \E src \in BOOLEAN, ok \in BOOLEAN :
          ms' = IF CopyRefused(ms)
                  THEN MsEnd(ms, "copy", <<>>, TRUE, "raised")
                ELSE IF ~src
                  THEN MsEnd(ms, "copy", <<>>, TRUE, "raised")
                ELSE IF ~ok
                  THEN MsEnd(ms, "copy", <<>>, FALSE, "raised")
                ELSE MsEnd(ms, "copy", <<"copy">>, TRUE, "ok")
    /\ UNCHANGED msFrame

\* massstoragedriver.py 122-127: update_files raises when not mounted, else
\* calls copy_file for the n entries of file_updates in turn; the first k
\* are copied, and entry k + 1 (if any) raises in copy_file
update_files ==
    /\ \E n \in 0..MaxUpdates :
          \E k \in 0..n :
              ms' = IF CopyRefused(ms)
                      THEN MsEnd(ms, "update", <<>>, TRUE, "raised")
                    ELSE MsEnd(ms, "update", [i \in 1..k |-> "copy"], k = n,
                               IF k = n THEN "ok" ELSE "raised")
    /\ UNCHANGED msFrame

\* the device is plugged or unplugged
DeviceChanges ==
    /\ ms' = [ms EXCEPT !.device = ~@]
    /\ UNCHANGED msFrame

\* somebody else mounts, unmounts or removes the mount point
PointChanges ==
    /\ \E p \in Points \ {ms.point} : ms' = [ms EXCEPT !.point = p]
    /\ UNCHANGED msFrame

(***************************************************************************)
(* CyberPowerDriver and VesyncPowerDriver.  pw is one record:              *)
(*   drv     the driver class                                              *)
(*   n       the outlets it switches (one for CyberPowerDriver, the        *)
(*           entries of outlet_names for VesyncPowerDriver)                *)
(*   active  the driver is active (target.activate / target.deactivate)    *)
(*   out     per outlet, the last command that completed                   *)
(*   call, was, todo, log, result, at   the latest call: its name, active  *)
(*           on entry, the statements still to run, the outlet commands    *)
(*           and sleeps issued so far, "running", "ok", "refused" or       *)
(*           "raised", and the command that raised                         *)
(*   done    per method, what the last call of it that returned issued     *)
(***************************************************************************)
MaxOutlets == 2

PowerDrivers == {"CyberPowerDriver", "VesyncPowerDriver"}
PowerMethods == {"on", "off", "reset", "cycle"}

Outlets(d) == IF d = "CyberPowerDriver" THEN {1} ELSE 1..MaxOutlets

Cmd(c, o) == [c |-> c, o |-> o]
\* time.sleep(delay), delay a float that is not negative
Sleep == Cmd("sleep", 0)
NoCmd == Cmd("none", 0)

\* off(): set_outlet_on(outlet, False), respectively turn_off() per outlet
OffBody(n) == [i \in 1..n |-> Cmd("off", i)]

\* on(): set_outlet_on(outlet, True), respectively turn_on() per outlet
OnBody(n) == [i \in 1..n |-> Cmd("on", i)]

\* variant of ResetBody that switches on before the delay
ResetBody_OnFirst(n) == OffBody(n) \o OnBody(n) \o <<Sleep>>

\* reset(): self.off(); time.sleep(delay); self.on()
ResetBody(n) == OffBody(n) \o <<Sleep>> \o OnBody(n)

\* cycle(): self.off(); time.sleep(delay); self.on()
CycleBody(n) == OffBody(n) \o <<Sleep>> \o OnBody(n)

MethodBody(m, n) ==
    CASE m = "on" -> OnBody(n)
      [] m = "off" -> OffBody(n)
      [] m = "reset" -> ResetBody(n)
      [] m = "cycle" -> CycleBody(n)

PwInit(d, n) ==
    [drv |-> d, n |-> n, active |-> FALSE, out |-> [i \in 1..n |-> "none"],
     call |-> "none", was |-> FALSE, todo |-> <<>>, log |-> <<>>,
     result |-> "none", at |-> NoCmd,
     done |-> [m \in PowerMethods |-> <<>>]]

PwIdle == pw.result # "running"

\* @Driver.check_active: the method runs only on an active driver
CheckActive(p) == p.active

\* a call of on(), off(), reset() or cycle() from outside
power_call(m) ==
    /\ PwIdle
    /\ pw' = IF CheckActive(pw)
               THEN [pw EXCEPT !.call = m, !.was = pw.active,
                               !.todo = MethodBody(m, pw.n), !.log = <<>>,
                               !.result = "running", !.at = NoCmd]
               ELSE [pw EXCEPT !.call = m, !.was = pw.active, !.todo = <<>>,
                               !.log = <<>>, !.result = "refused", !.at = NoCmd]
    /\ UNCHANGED pwFrame

\* the statement done, the call goes on or returns
PwAfter(p) ==
    LET rest == Tail(p.todo)
        log == Append(p.log, Head(p.todo))
    IN  [p EXCEPT !.todo = rest, !.log = log,
                  !.result = IF rest = <<>> THEN "ok" ELSE "running",
                  !.done[p.call] = IF rest = <<>> THEN log ELSE @]

\* the next outlet command completes
PwCommand ==
    /\ pw.result = "running"
    /\ Head(pw.todo).c \in {"on", "off"}
    /\ pw' = [PwAfter(pw) EXCEPT !.out[Head(pw.todo).o] = Head(pw.todo).c]
    /\ UNCHANGED pwFrame

\* the next outlet command raises (SNMP error, cloud error): the exception
\* leaves the method, and its caller reset() or cycle()
PwCommandRaises ==
    /\ pw.result = "running"
    /\ Head(pw.todo).c \in {"on", "off"}
    /\ pw' = [pw EXCEPT !.todo = <<>>, !.log = Append(pw.log, Head(pw.todo)),
                        !.result = "raised", !.at = Head(pw.todo)]
    /\ UNCHANGED pwFrame

\* time.sleep(delay) is over
PwSleep ==
    /\ pw.result = "running"
    /\ Head(pw.todo) = Sleep
    /\ pw' = PwAfter(pw)
    /\ UNCHANGED pwFrame

\* target.activate(driver) / target.deactivate(driver) between two calls
PwActivate ==
    /\ PwIdle
    /\ ~pw.active
    /\ pw' = [pw EXCEPT !.active = TRUE]
    /\ UNCHANGED pwFrame

PwDeactivate ==
    /\ PwIdle
    /\ pw.active
    /\ pw' = [pw EXCEPT !.active = FALSE]
    /\ UNCHANGED pwFrame

(***************************************************************************)
(* Instances                                                               *)
(***************************************************************************)
Config(power, shell, kuiper, imgw, verify, nPre, nPost) ==
    [power |-> power, shell |-> shell, kuiper |-> kuiper, imgw |-> imgw,
     verify |-> verify, nPre |-> nPre, nPost |-> nPost]

\* the configurations of class c: power and shell are optional bindings of
\* BootFabric, power and kuiper of BootFPGASoCSSH; image_writer/update_image
\* is an option of BootFPGASoC; a BootSelMap boot-file map is None or has
\* MaxFiles entries
Configs(c) ==
    CASE c = "BootFPGASoC" ->
            {Config(TRUE, TRUE, TRUE, w, FALSE, 0, 0) : w \in BOOLEAN}
      [] c = "BootFPGASoCSSH" ->
            {Config(p, TRUE, k, FALSE, FALSE, 0, 0) : p \in BOOLEAN, k \in BOOLEAN}
      [] c = "BootSelMap" ->
            {Config(TRUE, TRUE, FALSE, FALSE, FALSE, a, b) :
                a \in {0, MaxFiles}, b \in {0, MaxFiles}}
      [] c = "BootFabric" ->
            {Config(p, sh, FALSE, FALSE, v, 0, 0) :
                p \in BOOLEAN, sh \in BOOLEAN, v \in BOOLEAN}
      [] c = "ExampleBootStrategy" ->
            {Config(TRUE, FALSE, FALSE, FALSE, FALSE, 0, 0)}

UsesSsh(c) == c \in {"BootFPGASoCSSH", "BootSelMap"}

StratInit ==
    /\ cls \in Classes
    /\ cfg \in Configs(cls)
    /\ prog = [s \in Names(cls) |-> Branches(s)]
    /\ status = "unknown"
    /\ copiedPre = FALSE
    /\ copiedPost = FALSE
    /\ sshAddrOk \in (IF UsesSsh(cls) THEN BOOLEAN ELSE {TRUE})
    /\ active = {}
    /\ lastPower = "none"
    /\ mux = "none"
    /\ mounted = FALSE
    /\ stack = <<>>
    /\ t = 0
    /\ outcome = "none"
    /\ target = "unknown"
    /\ start = "unknown"
    /\ startPre = FALSE
    /\ oplog = <<>>
    /\ bodylog = <<>>
    /\ failed = NoFailure
    /\ broken = FALSE
    /\ hist = [puts |-> 0, cycles |-> 0, copied |-> 0, checked |-> 0, sent |-> 0]
    /\ tolerated = <<>>
    /\ everOk = FALSE

\* the power driver when it is not the subject: a CyberPowerDriver left alone
PwNone == PwInit("CyberPowerDriver", 1)

Init == StratInit /\ cache = EmptyCache /\ ms = MsInit /\ pw = PwNone

Next ==
    \/ \E s \in Names(cls) : Transition(s)
    \/ StepCall
    \/ StepBegin
    \/ StepOp
    \/ StepOpRaises
    \/ StepJmp
    \/ StepBr
    \/ StepFlag
    \/ StepSync
    \/ StepChk
    \/ StepChkFails
    \/ PollHit
    \/ PollMiss
    \/ PollRaises
    \/ PollExhausted
    \/ StepSetSt
    \/ StepRet
    \/ StepRaise
    \/ Finish

Spec == Init /\ [][Next]_vars

\* the steps of a call in progress
Step ==
    \/ StepCall \/ StepBegin \/ StepOp \/ StepOpRaises \/ StepJmp \/ StepBr
    \/ StepFlag \/ StepSync \/ StepChk \/ StepChkFails \/ PollHit \/ PollMiss
    \/ PollRaises \/ PollExhausted \/ StepSetSt \/ StepRet \/ StepRaise \/ Finish

\* every external operation terminates (it completes or raises), and the
\* interpreter goes on to the next statement: a call in progress takes steps
SpecLive == Init /\ [][Next]_vars /\ WF_vars(Step)

\* the cache on its own, next to an idle BootFPGASoC strategy
InitCache ==
    /\ StratInit
    /\ cls = "BootFPGASoC"
    /\ ~cfg.imgw
    /\ cache = EmptyCache
    /\ ms = MsInit
    /\ pw = PwNone

NextCache ==
    \/ \E v \in Versions, gbf \in BOOLEAN : download_release(v, gbf)
    \/ Download
    \/ DownloadRetry
    \/ DownloadFails
    \/ CheckArchive
    \/ CheckArchiveFails
    \/ Extract
    \/ ExtractFails
    \/ CheckImage
    \/ CheckImageFails
    \/ Move
    \/ MoveFails
    \/ Cleanup
    \/ CleanupFails
    \/ WriteIndex
    \/ WriteIndexFails
    \/ \E v \in Known : DeleteImage(v)

SpecCache == InitCache /\ [][NextCache]_vars

\* a cache directory as download_release and its failures can leave it:
\* the index missing, unparsable or listing some releases, and for each
\* release the verified image in place or not
CacheOnDisk(index, listed, present) ==
    [EmptyCache EXCEPT
        !.index = index,
        !.entries = [v \in Known |-> IF v \in listed THEN 1 ELSE 0],
        !.image = [v \in Known |->
                     IF v \in present THEN Decompress(ArchiveOf(v)) ELSE 0]]

\* a driver starting on such a cache directory
InitBoot ==
    /\ StratInit
    /\ cls = "BootFPGASoC"
    /\ ~cfg.imgw
    /\ ms = MsInit
    /\ pw = PwNone
    /\ \E index \in {"absent", "valid", "corrupt"},
          listed \in SUBSET Known, present \in SUBSET Known :
          /\ listed # {} <=> index = "valid"
          /\ cache = CacheOnDisk(index, listed, present)

NextBoot ==
    \/ \E v \in Versions : check_cached_call(v)
    \/ \E v \in Versions : get_boot_files_from_release(v)
    \/ OpenImage
    \/ OpenImageFails
    \/ FindFat
    \/ NoFat
    \/ ExtractFile
    \/ ExtractFileFails
    \/ BootFilesDone

SpecBoot == InitBoot /\ [][NextBoot]_vars

\* a MassStorageDriver on its own
NextMS ==
    \/ mount_partition
    \/ unmount_partition
    \/ copy_file
    \/ update_files
    \/ DeviceChanges
    \/ PointChanges

SpecMS == InitCache /\ [][NextMS]_vars

\* a power driver on its own, with every number of outlets it may have
InitPower ==
    /\ StratInit
    /\ cls = "BootFPGASoC"
    /\ ~cfg.imgw
    /\ cache = EmptyCache
    /\ ms = MsInit
    /\ \E d \in PowerDrivers : \E i \in Outlets(d) : pw = PwInit(d, i)

NextPower ==
    \/ \E m \in PowerMethods : power_call(m)
    \/ PwCommand
    \/ PwCommandRaises
    \/ PwSleep
    \/ PwActivate
    \/ PwDeactivate

SpecPower == InitPower /\ [][NextPower]_vars

(***************************************************************************)
(* Properties of the strategies                                            *)
(***************************************************************************)
Done == outcome \in {"returned", "raised"}
Returned == outcome = "returned"
Raised == outcome = "raised"

\* an operation issued by the requested state's own branch raised to the caller
RaisedInOwnBody == Raised /\ failed.depth = 1 /\ failed.op # "transition"

Last(seq) == seq[Len(seq)]
Occurs(x, seq) == \E i \in 1..Len(seq) : seq[i] = x

\* BootSelMap: this call uploaded the pre-boot files and restarted the Zynq
RestartedInCall ==
    /\ cls = "BootSelMap"
    /\ cfg.nPre > 0
    /\ ~startPre
    /\ copiedPre

\* C1 as claimed: whenever an operation of S's own action body raises, the
\* call raises to the caller (no exception of the body is swallowed) and
\* self.status is the predecessor of S afterwards.
C1_FailStop_AsClaimed ==
    Done /\ Pred(target) # "none" =>
        /\ tolerated # <<>> /\ target \in {"soft_off", "reboot"} => Raised
        /\ RaisedInOwnBody => status = Pred(target)

\* C1 (amended): when an operation issued by S's own action body raises to
\* the caller (the tolerated in-band shutdown of soft_off and the tolerated
\* reboot command do not), self.status is never S afterwards: it is the
\* predecessor of S, except for BootSelMap's update_virtex_boot_files in the
\* call that uploaded the pre-boot files, whose prerequisite returned with
\* self.status reverted to powered_off.
C1_FailStop ==
    RaisedInOwnBody /\ Pred(target) # "none" =>
        /\ status # target
        /\ status = IF RestartedInCall /\ target = "update_virtex_boot_files"
                      THEN "powered_off"
                      ELSE Pred(target)

C1_Witness ==
    /\ RaisedInOwnBody
    /\ cls = "BootFPGASoC"
    /\ target = "booted"
    /\ failed.op = "expect.marker"
    /\ status = "booting"

\* C2 as claimed: a transition(S) that returns without raising leaves
\* self.status = S.
C2_SuccessPostcondition == Returned => status = target

\* the states on the predecessor chain after powered_off up to s, in order
RECURSIVE Chain(_)
Chain(s) ==
    IF s \in {"powered_off", "off"} THEN <<>>
    ELSE IF Pred(s) = "none" THEN <<s>>
    ELSE Append(Chain(Pred(s)), s)

FromOff == start \in {"powered_off", "off"}

\* C3 as claimed: from powered_off, transition(S) runs the action bodies of
\* the chain up to S exactly once each, in chain order, S last.
C3_PrerequisiteOrder_AsClaimed ==
    Returned /\ FromOff => bodylog = Chain(target)

RestartBodies == <<"powered_off", "booting_zynq", "booted_zynq">>

\* the bodies after update_zynq_boot_files on the chain up to s
ChainAfterZynq(s) ==
    SubSeq(Chain(s), Len(Chain("update_zynq_boot_files")) + 1, Len(Chain(s)))

\* C3 (amended): from powered_off, a transition(S) that returns has run the
\* action bodies of the chain up to S in chain order, S's own last, each
\* exactly once -- except in the BootSelMap call that uploads the pre-boot
\* files, where powered_off, booting_zynq and booted_zynq run once more
\* right after update_zynq_boot_files' body (the restart), before the rest
\* of the chain.
C3_PrerequisiteOrder ==
    Returned /\ FromOff =>
        bodylog = IF RestartedInCall
                    THEN Chain("update_zynq_boot_files") \o RestartBodies
                         \o ChainAfterZynq(target)
                    ELSE Chain(target)

C3_Witness ==
    /\ Returned /\ FromOff
    /\ cls = "BootSelMap"
    /\ target = "shell"
    /\ RestartedInCall
    /\ Len(bodylog) = 10

\* the operations the scenario of C4 names
ScenarioOps ==
    {"power.off", "sdmux.host", "ms.mount", "ms.copy", "ms.unmount",
     "sdmux.dut", "power.on", "expect.Linux", "expect.marker"}
IsScenarioOp(o) == o \in ScenarioOps

\* C4: BootFPGASoC, from unknown, transition("shell"): power-off,
\* mux-to-host, the N boot-file copies between mount and unmount,
\* mux-to-dut, power-on, wait for "Linux", wait for the marker, and shell
\* activate as the last operation; self.status = shell at the end.
C4_ShellScenario ==
    Returned /\ cls = "BootFPGASoC" /\ start = "unknown" /\ target = "shell" =>
        /\ status = "shell"
        /\ SelectSeq(oplog, IsScenarioOp) =
              <<"power.off", "sdmux.host", "ms.mount">>
              \o [i \in 1..NBootFiles |-> "ms.copy"]
              \o <<"ms.unmount", "sdmux.dut", "power.on", "expect.Linux",
                   "expect.marker">>
        /\ Last(oplog) = "shell.activate"
        /\ "shell" \in active

C4_Witness ==
    /\ Returned /\ cls = "BootFPGASoC" /\ start = "unknown" /\ target = "shell"
    /\ cfg.imgw
    /\ Len(oplog) = 24

\* C5: transition(S) with self.status = S (S not unknown) is over at once
\* (it returns, or the never_retry wrapper of a broken instance raises): no
\* driver operation, no action body, self.status, the driver states and
\* the strategy's fields unchanged.
C5_Idempotence ==
    [][\A s \in Status(cls) \ {"unknown"} :
          Transition(s) /\ s = status =>
              /\ outcome' = (IF NeverRetry(cls) /\ broken THEN "raised"
                             ELSE "returned")
              /\ stack' = <<>>
              /\ oplog' = <<>>
              /\ bodylog' = <<>>
              /\ UNCHANGED <<status, drvVars, fldVars>>]_vars

C5_Witness ==
    /\ Returned
    /\ target = "shell" /\ start = "shell" /\ status = "shell"
    /\ "shell" \in active
    /\ oplog = <<>>

\* C6: transition(unknown) raises StrategyError from every state, with no
\* driver operation and self.status, drivers and fields unchanged; and once
\* any transition has returned, self.status is never unknown again.
C6_UnknownRejected ==
    /\ [](everOk => status # "unknown")
    /\ [][Transition("unknown") =>
              /\ outcome' = "raised"
              /\ failed'.kind \in {"reject", "broken"}
              /\ oplog' = <<>>
              /\ UNCHANGED <<status, drvVars, fldVars>>]_vars

C6_Witness ==
    /\ Raised /\ target = "unknown" /\ failed.kind = "reject"
    /\ status = "shell"
    /\ oplog = <<>>

\* the in-band shutdown of soft_off failed: the poweroff command or the
\* wait for "Power down" raised inside the try block
InbandFailed ==
    Occurs("shell.poweroff", tolerated) \/ Occurs("expect.PowerDown", tolerated)

HardPowerOffLast == oplog # <<>> /\ Last(oplog) = "power.off"

\* C7 as claimed: when the in-band shutdown inside soft_off fails (and the
\* power driver itself does not fail), transition(soft_off) returns with
\* self.status = soft_off and the shell deactivated, and -- where a power
\* driver is bound -- the hard power-off was issued after the failure, as
\* the call's last operation.
C7_ShutdownFallback ==
    Done /\ InbandFailed /\ failed.kind # "env" =>
        /\ Returned
        /\ status = "soft_off"
        /\ "shell" \notin active
        /\ cfg.power => HardPowerOffLast

PowerDependent == {"powered_off", "powered_on", "booting", "soft_off"}
PowerOps == {"power.activate", "power.off", "power.on"}

\* C8 as claimed: BootFabric and BootFPGASoCSSH without a power binding
\* reach every power-dependent state without raising (no driver operation
\* failing on its own) and without a power command.
C8_OptionalPowerSkip ==
    /\ Done
    /\ cls \in {"BootFabric", "BootFPGASoCSSH"}
    /\ ~cfg.power
    /\ target \in PowerDependent
    /\ failed.kind # "env"
    => /\ Returned
       /\ \A i \in 1..Len(oplog) : oplog[i] \notin PowerOps

(***************************************************************************)
(* Properties of the artifact cache                                        *)
(***************************************************************************)
Calls == cache.calls
LastCall == Calls[Len(Calls)]

\* C9: of two successive download_release(V) calls, the first returning,
\* the second finds V cached and downloads nothing when the cached image is
\* still in place (one network download in total when the first had to
\* fetch it); when the image was deleted in between -- the index still
\* listing V -- the second call does not find V cached and downloads again
\* (unless the server refuses).
C9_CacheRoundTrip ==
    \A i \in 1..(Len(Calls) - 1) :
        LET a == Calls[i]
            b == Calls[i + 1]
        IN  a.v = b.v /\ a.result = "ok" =>
              /\ ~b.deleted =>
                    /\ b.hit /\ b.result = "ok" /\ b.dl = 0
                    /\ ~a.hit => a.dl + b.dl = 1
              /\ b.deleted /\ ~b.gbf =>
                    /\ ~b.hit
                    /\ b.result # "network" => b.dl = 1

C9_Witness ==
    /\ Len(Calls) = 3
    /\ \A i \in 1..3 : Calls[i].v = "2019_R1" /\ ~Calls[i].gbf
    /\ ~Calls[1].hit /\ Calls[1].dl = 1 /\ Calls[1].result = "ok"
    /\ ~Calls[2].deleted /\ Calls[2].dl = 0 /\ Calls[2].result = "ok"
    /\ Calls[3].deleted /\ Calls[3].dl = 1 /\ Calls[3].result = "ok"
    /\ cache.entries["2019_R1"] = 3

\* the archive or the image the call worked on does not have its reference MD5
Mismatch(c) ==
    \/ c.dl > 0 /\ Md5(c.blob) # releases(c.v).archivemd5
    \/ c.unpacked # 0 /\ Md5(c.unpacked) # releases(c.v).imgmd5

\* C10: when the MD5 of the downloaded archive, or of the decompressed
\* image, is not the reference of V, download_release raises from the
\* check, after its single download, and the index (the file and every
\* entry) is as it was when the call began.
C10_ChecksumEnforcement ==
    CacheIdle /\ Calls # <<>> /\ Mismatch(LastCall) =>
        /\ LastCall.result = "md5"
        /\ LastCall.dl = 1
        /\ cache.index = cache.pre.index
        /\ cache.entries = cache.pre.entries

C10_Witness ==
    /\ CacheIdle /\ Calls # <<>>
    /\ LastCall.result = "md5"
    /\ LastCall.unpacked # 0
    /\ Md5(LastCall.blob) = releases(LastCall.v).archivemd5
    /\ cache.entries[LastCall.v] # 0
    /\ cache.index = "valid"

\* a call of download_release has ended and none is running
AfterCall == CacheIdle /\ Calls # <<>>

\* C11 as claimed: however download_release ended, no archive and no
\* extracted file or directory it created remains in the working
\* directory.
C11_IntermediateCleanup ==
    AfterCall =>
        /\ \A v \in Known : cache.archive[v] = 0 /\ cache.unpacked[v] = 0
        /\ ~cache.residue

\* C12 as claimed: an index write that fails part-way leaves the index file
\* readable with every entry it had before the call; the index is never
\* observed truncated.
C12_IndexCrashAtomicity ==
    /\ cache.index # "corrupt"
    /\ AfterCall /\ LastCall.result = "write" =>
          /\ cache.index = cache.pre.index
          /\ cache.entries = cache.pre.entries

\* C13: a download_release(V) that returns leaves the index entry of every
\* other release exactly as it was when the call began; only the entry of
\* V is written, and only when the call downloaded.
C13_IndexFrame ==
    AfterCall /\ LastCall.result = "ok" =>
        /\ cache.index = "valid"
        /\ \A w \in Known \ {LastCall.v} :
              cache.entries[w] = cache.pre.entries[w]
        /\ cache.entries[LastCall.v] =
              IF LastCall.hit THEN cache.pre.entries[LastCall.v] ELSE LastCall.n

C13_Witness ==
    /\ AfterCall /\ LastCall.result = "ok" /\ ~LastCall.hit
    /\ LastCall.v = "2023_R2_P1"
    /\ cache.entries["2019_R1"] = 1
    /\ cache.entries["2023_R2_P1"] = 2

\* the index file exists and lists v, and the recorded image file exists
ValidEntry(v) ==
    /\ cache.index # "absent"
    /\ v \in Known
    /\ cache.entries[v] # 0
    /\ cache.image[v] # 0

\* C14 as claimed: check_cached(V) returns true exactly when the index
\* file exists, lists V and the recorded image exists, and returns false
\* in every other case.
C14_CacheEntryValidity ==
    cache.probe.v # "" =>
        cache.probe.result = IF ValidEntry(cache.probe.v) THEN "true"
                             ELSE "false"

\* get_boot_files_from_release has ended
AfterBootCall == CacheIdle /\ cache.gb.result # "none"

\* C15 as claimed: get_boot_files_from_release on a known release that is
\* not cached materializes it (index entry and image in place afterwards)
\* and completes, unless the download, a check or the extraction fails --
\* it never ends in NotImplementedError.
C15_ProvisioningPopulatesCache ==
    AfterBootCall /\ cache.gb.v \in Known /\ ~cache.gb.cached
                  /\ cache.gb.result # "index" =>
        /\ cache.gb.result # "notimplemented"
        /\ cache.gb.result = "ok" => ValidEntry(cache.gb.v)

\* C16: when download_release returns normally, by a download or by a
\* cache hit, the index file exists, lists the release, and the image it
\* names exists (as long as nobody deletes it), so check_cached is true.
C16_DownloadPostcondition ==
    AfterCall /\ LastCall.result = "ok" /\ ~cache.deleted[LastCall.v] =>
        /\ cache.index = "valid"
        /\ cache.entries[LastCall.v] # 0
        /\ cache.image[LastCall.v] # 0
        /\ Md5(cache.image[LastCall.v]) = releases(LastCall.v).imgmd5
        /\ check_cached(cache, LastCall.v)

C16_Witness ==
    /\ AfterCall /\ LastCall.result = "ok" /\ LastCall.hit
    /\ Len(Calls) = 3
    /\ Calls[2].result = "ok" /\ Calls[2].dl = 1 /\ Calls[2].deleted
    /\ LastCall.v = "2023_R2_P1"
    /\ cache.image["2023_R2_P1"] # 0

\* C17 as claimed: get_boot_files_from_release returns the list of the
\* extracted boot files, one per manifest entry, in manifest order.
C17_ReturnsBootFiles ==
    AfterBootCall /\ cache.gb.result = "ok" =>
        /\ ~cache.gb.ret.none
        /\ cache.gb.ret.files = Manifest

\* C18: when a file of the manifest cannot be extracted,
\* get_boot_files_from_release raises with the image closed and _boot_files
\* as it was before the call, never a partial list.
C18_MissingManifestFile ==
    /\ AfterBootCall /\ cache.gb.result = "extract" =>
          /\ ~cache.open
          /\ cache.boot_files = cache.gb.before
    /\ cache.boot_files \in {<<>>, Manifest}

C18_Witness ==
    /\ AfterBootCall /\ cache.gb.result = "extract"
    /\ cache.gb.extracted = 2
    /\ cache.boot_files = Manifest
    /\ ~cache.open

(***************************************************************************)
(* Properties of MassStorageDriver                                         *)
(***************************************************************************)
\* C19: mount_partition called while mounted runs no command and leaves
\* mounted true; unmount_partition called while not mounted runs no command
\* and leaves mounted false; neither raises.
C19_MountIdempotence ==
    /\ ms.call = "mount" /\ ms.before =>
          ms.cmds = <<>> /\ ms.mounted /\ ms.result = "ok"
    /\ ms.call = "unmount" /\ ~ms.before =>
          ms.cmds = <<>> /\ ~ms.mounted /\ ms.result = "ok"

C19_Witness ==
    /\ ms.call = "mount" /\ ms.before
    /\ ms.seen = "absent"
    /\ ms.mounted
    /\ ms.cmds = <<>>

\* the latest call was unmount_partition on a mounted driver
Unmounted == ms.call = "unmount" /\ ms.before

\* C20: unmount_partition returns, with mounted false, only when the mount
\* point is gone; when the unmount command fails, or the mount point still
\* exists after it, the call raises and mounted stays true.
C20_TeardownVerification ==
    Unmounted =>
        /\ ms.result = "ok" => ~ms.mounted /\ ms.seen = "absent"
        /\ ms.result = "raised" => ms.mounted
        /\ ms.cmds # <<>> /\ (~ms.cmdok \/ ms.seen # "absent") =>
              ms.result = "raised"

C20_Witness ==
    /\ Unmounted
    /\ ms.cmds = <<"sync", "pumount">>
    /\ ms.cmdok
    /\ ms.seen = "dir"
    /\ ms.result = "raised"
    /\ ms.mounted

\* a step of the call in progress, or a step while no call runs, that is not
\* the start of a new top-level call
SameCall == ~(\E s \in Names(cls) : Transition(s))

\* C21: no silent retry.  Within one top-level call, the step in which an
\* exception leaves a branch (the tolerated in-band shutdown and reboot
\* failures do not) ends the call with the error at the caller, and from
\* then on that call completes no driver operation, enters no action body
\* and changes neither self.status nor a driver.
C21_NoSilentRetry ==
    [][SameCall =>
          /\ failed' # failed =>
                /\ outcome' = "raised" /\ stack' = <<>>
                /\ UNCHANGED <<oplog, bodylog, status, drvVars>>
          /\ failed # NoFailure =>
                UNCHANGED <<oplog, bodylog, status, drvVars, outcome, stack>>]_vars

\* an exception of a nested branch reached the caller after operations and
\* a tolerated failure of the same call
C21_Witness ==
    /\ Raised
    /\ failed.kind = "env"
    /\ failed.depth = 2
    /\ tolerated # <<>>
    /\ oplog # <<>>
    /\ Len(bodylog) = 2

\* C22: BootSelMap, over all the calls on one instance: every pre-boot file
\* is uploaded at most once and the power-off of the restart that follows
\* the upload happens at most once; and every call of transition that has
\* begun comes to its end (returns or raises) when each operation does.
C22_BoundedRestart ==
    /\ [](cls = "BootSelMap" => hist.puts <= cfg.nPre /\ hist.cycles <= 1)
    /\ ((cls = "BootSelMap" /\ Running) ~> ~Running)

\* a later call went through update_zynq_boot_files again after the call
\* that uploaded and restarted
C22_Witness ==
    /\ cls = "BootSelMap"
    /\ Returned
    /\ startPre
    /\ hist.puts = MaxFiles
    /\ hist.cycles = 1
    /\ Occurs("update_zynq_boot_files", bodylog)

\* C23 as claimed: BootFabric, after transition("powered_on"),
\* transition("bitstream_flashed") returns with self.status =
\* bitstream_flashed, and transition("kernel_downloaded") on an instance
\* that has not failed returns too.
C23_IntermediateTargets ==
    cls = "BootFabric" /\ Done /\ target \in TestedNames =>
        /\ start = "powered_on" /\ target = "bitstream_flashed" =>
              Returned /\ status = "bitstream_flashed"
        /\ failed.kind # "broken" => Returned

\* nothing the environment did made the call fail: it returned, or what
\* raised is a method the bound driver does not have
NoEnvFailure == failed.kind \in {"none", "missing"}

FabricOps ==
    {"power.off", "power.on", "jtag.load", "shell.activate", "expect.Linux",
     "expect.marker", "shell.deactivate"}
IsFabricOp(o) == o \in FabricOps

\* C24 as claimed: BootFabric with power, jtag and shell bound, from unknown,
\* transition("shell") with every operation succeeding issues (after the
\* shell deactivate that powered_off begins with) power-off, power-on, the JTAG load through a method the JTAG driver provides, shell
\* activate, the wait for "Linux", the wait for the marker, shell
\* deactivate and shell activate, and returns with self.status = shell; a
\* following transition("soft_off") leaves the power switched off.
C24_FabricBootSequence ==
    cls = "BootFabric" /\ cfg.power /\ cfg.shell /\ Done /\ NoEnvFailure =>
        /\ start = "unknown" /\ target = "shell" =>
              /\ Returned
              /\ status = "shell"
              /\ SelectSeq(oplog, IsFabricOp) =
                    <<"shell.deactivate", "power.off", "power.on", "jtag.load",
                      "shell.activate", "expect.Linux", "expect.marker",
                      "shell.deactivate", "shell.activate">>
              /\ "shell" \in active
        /\ start = "shell" /\ target = "soft_off" =>
              Returned /\ lastPower = "off"

SshScenarioOps ==
    {"power.off", "power.on", "expect.Linux", "expect.marker", "shell.get_ip",
     "ssh.put", "shell.reboot"}
IsSshScenarioOp(o) == o \in SshScenarioOps

Count(x, seq) == Len(SelectSeq(seq, LAMBDA y : y = x))

\* the states of BootFPGASoCSSH before update_boot_files
BeforeUpload == {"unknown", "powered_off", "booting", "booted"}

\* the reboot command was issued: it completed, or its exception was swallowed
RebootIssued == Occurs("shell.reboot", oplog) \/ Occurs("shell.reboot", tolerated)

C26_BoundedDownloadRetry ==
    /\ cache.attempt <= 3
    /\ cache.pc = "download" /\ cache.attempt > 0 =>
          cache.resp \in {"429", "500", "502", "504", "error"}
    /\ AfterCall /\ LastCall.result = "network" =>
          /\ cache.resp # "200"
          /\ cache.resp \in {"429", "500", "502", "504", "error"} =>
                cache.attempt = 3
          /\ cache.index = cache.pre.index
          /\ cache.entries = cache.pre.entries

\* the fourth attempt of a download for a cache that lists another release
\* failed too
C26_Witness ==
    /\ AfterCall /\ LastCall.result = "network"
    /\ cache.attempt = 3
    /\ cache.resp = "504"
    /\ cache.index = "valid"

\* the file has the reference digest the release table gives
ArchiveVerified(b, v) == Md5(b) = Md5(ArchiveOf(v))
ImageVerified(b, v) == Md5(b) = Md5(Decompress(ArchiveOf(v)))

\* C27: in download_release, the archive is decompressed only when its
\* checksum matches, the image is moved into the cache only when its
\* checksum matches, and an index entry of a release is written only with
\* a moved, verified image of that release at its image_path.
C27_PipelineOrdering ==
    [][/\ cache'.unpacked # cache.unpacked /\ cache'.pc = "check_image" =>
              ArchiveVerified(cache.archive[cache.v], cache.v)
       /\ \A v \in Known :
              cache'.image[v] # cache.image[v] /\ cache'.image[v] # 0 =>
                  /\ v = cache.v
                  /\ cache'.image[v] = cache.unpacked[v]
                  /\ ImageVerified(cache.unpacked[v], v)
       /\ \A v \in Known :
              cache'.entries[v] # cache.entries[v] /\ cache'.entries[v] # 0 =>
                  /\ v = cache.v
                  /\ cache.cur.unpacked # 0
                  /\ cache.image[v] = cache.cur.unpacked
                  /\ ImageVerified(cache.image[v], v)]_vars

\* a first download of the zip release went through the whole pipeline
C27_Witness ==
    /\ AfterCall /\ LastCall.result = "ok" /\ ~LastCall.hit
    /\ Len(Calls) = 1
    /\ LastCall.v = "2023_R2_P1"
    /\ LastCall.dl = 1
    /\ ArchiveVerified(LastCall.blob, LastCall.v)
    /\ ImageVerified(cache.image[LastCall.v], LastCall.v)
    /\ cache.entries[LastCall.v] = 1

\* C28 as claimed: in every class, while no call of transition is in
\* progress, self.status = shell implies that the shell driver is active.
C28_ShellStateInvariant ==
    ~Running /\ status = "shell" => "shell" \in active

\* C29 as claimed: in every class with power bound, while no call of
\* transition is in progress, self.status = powered_off implies that the
\* last power command issued was off and that the shell driver is inactive.
C29_PoweredOffInvariant ==
    ~Running /\ cfg.power /\ status = "powered_off" =>
        lastPower = "off" /\ "shell" \notin active

\* C30 as claimed: after a call of transition has failed (self.broken is
\* set), a following transition(powered_off) is carried out: it is not
\* refused, but goes on to the power-off and to self.status = powered_off.
C30_Recoverability_AsClaimed ==
    [][broken /\ Transition("powered_off") => outcome' # "raised"]_vars

\* C30 (amended): in the four device classes, a call of transition that
\* raises leaves the instance broken for good, and every following call,
\* transition(powered_off) included, raises at once: no driver operation,
\* no action body, self.status, the drivers and the fields unchanged.
C30_Recoverability ==
    /\ [](NeverRetry(cls) /\ Raised => broken)
    /\ [][broken => broken']_vars
    /\ [][\A s \in Names(cls) :
              broken /\ Transition(s) =>
                  /\ outcome' = "raised"
                  /\ failed'.kind = "broken"
                  /\ stack' = <<>>
                  /\ oplog' = <<>>
                  /\ bodylog' = <<>>
                  /\ UNCHANGED <<status, drvVars, fldVars>>]_vars

\* transition(powered_off) was refused with the power left on
C30_Witness ==
    /\ Raised
    /\ target = "powered_off"
    /\ failed.kind = "broken"
    /\ status \notin {"powered_off", "unknown"}
    /\ lastPower = "on"

(***************************************************************************)
(* Interlocks of BootFPGASoC                                               *)
(***************************************************************************)
MuxOps == {"sdmux.host", "sdmux.dut"}

\* this step issues driver operation o: it completes or it raises
Issues(o) == At("op") /\ Ins.a = o /\ stack' # stack

\* C31: BootFPGASoC, over any sequence of calls: a set_mode("host") or
\* set_mode("dut") is issued (whether it then completes or raises) only
\* while the last power command was off.  No power command of a call in
\* progress has raised (a raise ends the call and breaks the instance), so
\* the last command completed is the last one issued.
C31_MuxPowerInterlock ==
    /\ [](cls = "BootFPGASoC" /\ Running => ~broken)
    /\ [][cls = "BootFPGASoC" /\ (\E o \in MuxOps : Issues(o)) =>
              lastPower = "off"]_vars

\* a later call switched the mux again after the device had been booted
C31_Witness ==
    /\ cls = "BootFPGASoC"
    /\ Returned
    /\ start = "shell" /\ target = "sd_mux_to_dut"
    /\ Occurs("sdmux.host", oplog) /\ Last(oplog) = "sdmux.dut"
    /\ lastPower = "off"

\* C32: BootFPGASoC, over any sequence of calls: the power-on command is
\* issued (whether it then completes or raises) only when the last mux
\* command was set_mode("dut"), the mass storage is not mounted, and every
\* boot file was copied since the mux last went to the host.
C32_PowerOnPrecondition ==
    [][cls = "BootFPGASoC" /\ Issues("power.on") =>
          /\ mux = "dut"
          /\ ~mounted
          /\ hist.copied = NBootFiles]_vars

\* the power-on of a call that found the boot files already copied by an
\* earlier call
C32_Witness ==
    /\ cls = "BootFPGASoC"
    /\ Returned
    /\ start = "update_boot_files" /\ target = "booting"
    /\ oplog = <<"sdmux.dut", "power.activate", "power.on">>
    /\ lastPower = "on"
    /\ hist.copied = NBootFiles

\* the handles a step acquires for its own duration only
TransientHandles == {"mass_storage", "image_writer", "ssh"}

\* C33 as claimed: in BootFPGASoC, BootFPGASoCSSH and BootSelMap, after any
\* call of transition has returned or raised, the mass storage is unmounted
\* and deactivated, the image writer is deactivated and the SSH handle is
\* deactivated.
C33_NoLeakedHandles ==
    cls \in {"BootFPGASoC", "BootFPGASoCSSH", "BootSelMap"} /\ Done =>
        /\ ~mounted
        /\ TransientHandles \cap active = {}

\* C34 as claimed: in BootFPGASoCSSH and BootSelMap, whenever a file is
\* uploaded over SSH inside an update step, the address of the SSH handle
\* equals the IP address the shell reported earlier in that step.
C34_SshAddressSync ==
    [][UsesSsh(cls) /\ Issues("ssh.put") => sshAddrOk]_vars

(***************************************************************************)
(* BootSelMap: the order of the uploads, the restart and the trigger       *)
(***************************************************************************)
SelMapOps ==
    {"power.off", "power.on", "expect.Linux", "expect.marker", "ssh.put",
     "ssh.selmap"}
IsSelMapOp(o) == o \in SelMapOps

BootZynq == <<"power.off", "power.on", "expect.Linux", "expect.marker">>

\* what comes before the trigger command in a call that starts at unknown:
\* boot, the pre-boot uploads, power cycle and second boot, the post-boot
\* uploads
BeforeTrigger ==
    BootZynq \o [i \in 1..cfg.nPre |-> "ssh.put"]
    \o BootZynq \o [i \in 1..cfg.nPost |-> "ssh.put"]

\* a BootSelMap with both file maps
BothMaps == cls = "BootSelMap" /\ cfg.nPre > 0 /\ cfg.nPost > 0
\* the call was let in: the instance was not broken by an earlier failure
ShellFromUnknown == start = "unknown" /\ target = "shell" /\ failed.kind # "broken"

\* the statement in progress sets the copied flag of a file map
SetsFlag(f) == At("flag") /\ Ins.a = f /\ stack' # stack

InLoop(p) == At("poll") /\ Ins.a = p

\* this step is one poll of the loop in progress: it misses, hits or raises
Polls == At("poll") /\ (t' = t + 1 \/ oplog' # oplog \/ failed'.op = "shell.iio_attr")

\* this step is the poll that finds the condition satisfied
PollSatisfied == At("poll") /\ oplog' # oplog

C37_StateWithoutEdge ==
    /\ [](cls = "BootSelMap" => status # "booted_virtex")
    /\ [](cls = "BootSelMap" /\ Returned /\ target = "shell" =>
            status = "shell" /\ ~Occurs("booted_virtex", bodylog))
    /\ [][cls = "BootSelMap" /\ Transition("booted_virtex") =>
              /\ outcome' = "raised"
              /\ failed'.kind \in {"noedge", "broken"}
              /\ stack' = <<>>
              /\ oplog' = <<>>
              /\ bodylog' = <<>>
              /\ UNCHANGED <<status, drvVars, fldVars>>]_vars

\* booted_virtex was asked for, and refused, at shell
C37_Witness ==
    /\ cls = "BootSelMap"
    /\ Raised
    /\ target = "booted_virtex"
    /\ failed.kind = "noedge"
    /\ start = "shell" /\ status = "shell"
    /\ "shell" \in active

\* the operations that go over the console
ConsoleOps ==
    {"shell.activate", "shell.deactivate", "shell.poweroff", "shell.get_ip",
     "shell.reboot", "shell.restart_iiod", "shell.iio_attr", "expect.Linux",
     "expect.marker", "expect.PowerDown"}

\* C38 as claimed: BootFabric without a shell binding, at unknown:
\* transition("shell"), no operation failing on its own, enters the bodies
\* of powered_off, powered_on, flash_fpga, booted and shell, issues no
\* console operation, and raises StrategyError from the shell branch with
\* self.status = booted.
C38_RequiredShell ==
    /\ cls = "BootFabric" /\ ~cfg.shell
    /\ start = "unknown" /\ target = "shell"
    /\ Done /\ failed.kind \notin {"env", "broken"}
    => /\ Raised
       /\ failed.op = "StrategyError" /\ failed.kind = "strategy"
       /\ failed.st = "shell"
       /\ status = "booted"
       /\ bodylog = <<"powered_off", "powered_on", "flash_fpga", "booted", "shell">>
       /\ \A i \in 1..Len(oplog) : oplog[i] \notin ConsoleOps

(***************************************************************************)
(* MassStorageDriver: use requires mount                                   *)
(***************************************************************************)
\* the latest call was copy_file or update_files
Copied == ms.call \in {"copy", "update"}

\* C39: copy_file and update_files called while mounted is false raise and
\* write nothing; whatever the calls before, a file is written only by a
\* call that found mounted true; and copy_file and update_files, failed or
\* not, leave mounted as it was.
C39_UseRequiresMount ==
    /\ Copied /\ ~ms.before => ms.result = "raised" /\ ms.cmds = <<>>
    /\ Occurs("copy", ms.cmds) => Copied /\ ms.before
    /\ Copied => ms.mounted = ms.before

\* update_files copied one file and failed on the next, still mounted
C39_Witness ==
    /\ ms.call = "update"
    /\ ms.before
    /\ ms.result = "raised"
    /\ ms.cmds = <<"copy">>
    /\ ms.mounted

(***************************************************************************)
(* The power drivers: reset and cycle                                      *)
(***************************************************************************)
\* how many statements of kind c the latest call has issued
Issued(c) == Cardinality({i \in 1..Len(pw.log) : pw.log[i].c = c})

\* statement kinds in the order reset() and cycle() go through them
Rank(c) == CASE c = "off" -> 1 [] c = "sleep" -> 2 [] c = "on" -> 3

PowerCycling == pw.call \in {"reset", "cycle"}

\* C40: CyberPowerDriver and VesyncPowerDriver: in reset() and in cycle()
\* every off command comes before the delay and the delay before every on
\* command; an on command is issued only after each outlet was switched
\* off and the delay was waited, hence never when off raised; a call that
\* returns has switched each outlet off once and on once with one delay in
\* between; cycle() and reset() issue the same sequence; and a call of on,
\* off, reset or cycle on a driver that is not active is refused without
\* any command, while a call on an active driver is not.
C40_PowerResetOrdering ==
    /\ PowerCycling =>
          /\ \A i, j \in 1..Len(pw.log) :
                i < j => Rank(pw.log[i].c) <= Rank(pw.log[j].c)
          /\ Issued("on") > 0 => Issued("off") = pw.n /\ Issued("sleep") = 1
          /\ Issued("sleep") > 0 => Issued("off") = pw.n
          /\ pw.at.c = "off" => Issued("on") = 0 /\ Issued("sleep") = 0
          /\ pw.result = "ok" =>
                /\ Len(pw.log) = 2 * pw.n + 1
                /\ \A o \in 1..pw.n :
                      /\ pw.log[o] = Cmd("off", o)
                      /\ pw.log[pw.n + 1 + o] = Cmd("on", o)
                /\ pw.log[pw.n + 1] = Sleep
    /\ pw.done["reset"] # <<>> /\ pw.done["cycle"] # <<>> =>
          pw.done["reset"] = pw.done["cycle"]
    /\ pw.call # "none" =>
          /\ ~pw.was => pw.result = "refused" /\ pw.log = <<>>
          /\ pw.was => pw.result # "refused"

\* a VesyncPowerDriver with two outlets has completed a reset and a cycle
C40_Witness ==
    /\ pw.drv = "VesyncPowerDriver" /\ pw.n = 2
    /\ pw.call = "cycle" /\ pw.result = "ok"
    /\ pw.done["reset"] # <<>>
    /\ Len(pw.log) = 5
    /\ pw.out = [i \in 1..2 |-> "on"]

====
